---------------------------- MODULE Spec2Model ----------------------------
(***************************************************************************)
(* Organization seat and role management of Pillar                         *)
(* (src/pillar/api/organizations/__init__.py, class OrgManager).           *)
(*                                                                         *)
(* A document is a function from its field names to values, as a Python    *)
(* dict: a field the document does not carry is not in its DOMAIN.         *)
(* Every OrgManager method runs to completion inside one request, so each  *)
(* method is one action; `last` records the call that produced the current *)
(* state: its arguments, its outcome, the stores as they were before it    *)
(* and the calls it made to its collaborators, in order.  Two concurrent    *)
(* requests are the same methods cut at the point where the organization   *)
(* document has been read and not yet written (`inflight`).                *)
(*                                                                         *)
(* Node property validation of Pillar                                      *)
(* (src/pillar/api/custom_field_validation.py, class ValidateCustomFields):*)
(* `node` is the validator with the node document it validates.            *)
(***************************************************************************)
EXTENDS Integers, Sequences, FiniteSets, TLC

VARIABLES
    orgs,             \* the 'organizations' collection: _id -> document
    users,            \* the 'users' collection: _id -> [email, roles]
    schema_defaults,  \* whether the store fills the list fields a created
                      \* document leaves out: create_new_org posts neither
                      \* members nor unknown_members, and the readers of the
                      \* document expect either (get('members') or [],
                      \* "Make sure it's never None" in the web view)
    last,             \* the last OrgManager call
    inflight,         \* request -> what a request that has read the
                      \* organization document holds until it writes
    node              \* the validator: its document, the errors it
                      \* reported and what the rule returned

vars == <<orgs, users, schema_defaults, last, inflight, node>>

---------------------------------------------------------------------------
(* Bounds and the values the inputs are drawn from.                        *)

MaxSeats == 2

None == "None"

OrgIdSeq == <<"o1", "o2">>
OrgIds == {OrgIdSeq[i] : i \in DOMAIN OrgIdSeq}

(* u1 has a user document from the start; u2 registers later, so before    *)
(* that b@x matches no user and u2 is an identifier without a document.    *)
(* c@x never matches a user.                                               *)
UserIds == {"u1", "u2"}
Emails == {"a@x", "b@x", "c@x"}
EmailOf(u) == IF u = "u1" THEN "a@x" ELSE "b@x"

OrgRoleNames == {"org-A", "org-B", "org-C", "org-D"}
SeatCounts == (-1) .. MaxSeats
OrgRolesArgs == {{}, {"org-A", "org-B"}, {"org-B", "org-C"}}

(* The email lists a caller passes: every selection once, and two lists    *)
(* that name an address twice.                                             *)
EmailLists ==
    { << >>, <<"a@x">>, <<"b@x">>, <<"c@x">>,
      <<"a@x", "b@x">>, <<"a@x", "c@x">>, <<"c@x", "b@x">>,
      <<"a@x", "b@x", "c@x">>,
      <<"c@x", "c@x">>, <<"b@x", "a@x", "b@x">> }

Range(s) == {s[i] : i \in DOMAIN s}

Perms(S) == {s \in [1 .. Cardinality(S) -> S] : Range(s) = S}

---------------------------------------------------------------------------
(* Documents.                                                              *)

Has(doc, k) == k \in DOMAIN doc

SetField(doc, k, v) == [f \in DOMAIN doc \cup {k} |-> IF f = k THEN v ELSE doc[f]]

Merge(doc, r) == [f \in DOMAIN doc \cup DOMAIN r |-> IF f \in DOMAIN r THEN r[f] ELSE doc[f]]

(* role.startswith('org-'), on the role names of the model *)
StartsWithOrg(role) == role \in {"org-A", "org-B", "org-C", "org-D"}

NoDoc == << >>

(* One entry of last.events: a call to a collaborator. *)
Event(kind, id, status, roles, doc) ==
    [kind |-> kind, id |-> id, status |-> status, roles |-> roles, doc |-> doc]

(* The record of a call: what it was given, how it ended (result is "ok"   *)
(* or the exception raised, error the exception's arguments), what it      *)
(* returned, the document it works on (the organization, for refresh_roles *)
(* the user) as stored before the call, and the collaborator calls made.   *)
Call(op, args, result, error, returned, before, events) ==
    [op |-> op, args |-> args, result |-> result, error |-> error,
     returned |-> returned, before |-> before, events |-> events]

---------------------------------------------------------------------------
(* Collaborators whose code is outside the organization manager.           *)

(* current_app.post_internal('organizations', doc), when it answers 201:   *)
(* the stored document, with the list fields the caller left out filled in *)
(* when the resource schema declares defaults for them.                    *)
PostInternalStored(doc, defaults) ==
    IF defaults
    THEN Merge([members |-> {}, unknown_members |-> {}, org_roles |-> {}], doc)
    ELSE doc

(* current_app.put_internal('organizations', doc, _id=org_id): replaces    *)
(* the stored document when it answers 200, leaves it otherwise.           *)
PutInternal(orgsv, org_id, doc, status) ==
    IF status = 200 THEN [orgsv EXCEPT ![org_id] = doc] ELSE orgsv

(* do_badger(action, roles=..., user_id=...): grants or revokes the batch. *)
DoBadger(usersv, action, roles, user_id) ==
    [usersv EXCEPT ![user_id].roles =
        IF action = "grant" THEN @ \cup roles ELSE @ \ roles]

---------------------------------------------------------------------------
(* OrgManager.create_new_org                                               *)

CreateOrgDoc(name, admin_uid, seat_count, org_roles) ==
    LET org_doc == [name |-> name, admin_uid |-> admin_uid, seat_count |-> seat_count]
    IN  IF org_roles # {} THEN SetField(org_doc, "org_roles", org_roles) ELSE org_doc

CreateSucceededAny2xx(status) == status \in {200, 201}

CreateSucceeded(status) == status = 201

(* The identifier the store gives the next created document. *)
NewOrgId == OrgIdSeq[Cardinality(DOMAIN orgs) + 1]

CreateNewOrg(name, admin_uid, seat_count, org_roles, status) ==
    LET org_doc == CreateOrgDoc(name, admin_uid, seat_count, org_roles)
        new_id  == NewOrgId
        posted  == <<Event("post", new_id, status, {}, org_doc)>>
        args    == [name |-> name, admin_uid |-> admin_uid,
                    seat_count |-> seat_count, org_roles |-> org_roles]
    IN  /\ IF CreateSucceeded(status)
           THEN /\ orgs' = [o \in DOMAIN orgs \cup {new_id} |->
                               IF o = new_id
                               THEN PostInternalStored(org_doc, schema_defaults)
                               ELSE orgs[o]]
                /\ last' = Call("create_new_org", args, "ok", << >>,
                                Merge(org_doc, [_id |-> new_id]), NoDoc, posted)
           ELSE /\ orgs' = orgs
                /\ last' = Call("create_new_org", args, "ValueError",
                                << >>, NoDoc, NoDoc, posted)
        /\ UNCHANGED <<users, schema_defaults, inflight, node>>

---------------------------------------------------------------------------
(* OrgManager.refresh_roles                                                *)

(* The aggregation: $match members, $unwind org_roles, $addToSet; the set  *)
(* is empty when the query has no result.                                  *)
AggregateOrgRoles(orgsv, user_id) ==
    UNION {orgsv[o].org_roles :
             o \in {x \in DOMAIN orgsv :
                      /\ Has(orgsv[x], "members")
                      /\ user_id \in orgsv[x].members
                      /\ Has(orgsv[x], "org_roles")}}

ExistingOrgRoles(all_user_roles) == {role \in all_user_roles : StartsWithOrg(role)}

GrantRolesAllListed(org_roles, all_user_roles) == org_roles

(* grant_roles = org_roles - all_user_roles *)
GrantRoles(org_roles, all_user_roles) == org_roles \ all_user_roles

RevokeNothing(org_roles, all_user_roles) == {}

RevokeEveryOtherRole(org_roles, all_user_roles) == all_user_roles \ org_roles

RevokeRoles(org_roles, all_user_roles) == ExistingOrgRoles(all_user_roles) \ org_roles

BadgerCallsUnguarded(grant_roles, revoke_roles, user_id) ==
    <<Event("grant", user_id, 0, grant_roles, NoDoc),
      Event("revoke", user_id, 0, revoke_roles, NoDoc)>>

(* The calls to do_badger one refresh makes, in order. *)
BadgerCalls(grant_roles, revoke_roles, user_id) ==
    (IF grant_roles # {}
     THEN <<Event("grant", user_id, 0, grant_roles, NoDoc)>> ELSE << >>)
    \o
    (IF revoke_roles # {}
     THEN <<Event("revoke", user_id, 0, revoke_roles, NoDoc)>> ELSE << >>)

RECURSIVE ApplyBadger(_, _)
ApplyBadger(usersv, calls) ==
    IF calls = << >> THEN usersv
    ELSE ApplyBadger(DoBadger(usersv, Head(calls).kind, Head(calls).roles, Head(calls).id),
                     Tail(calls))

(* refresh_roles(user_id) on the given stores: the users collection after  *)
(* it, the collaborator calls it made, and the exception it ended with.    *)
RefreshRoles(orgsv, usersv, user_id) ==
    LET org_roles == AggregateOrgRoles(orgsv, user_id)
        started   == <<Event("refresh", user_id, 0, {}, NoDoc)>>
    IN  IF user_id \notin DOMAIN usersv
        THEN [users |-> usersv, events |-> started, result |-> "AttributeError"]
        ELSE LET all_user_roles == usersv[user_id].roles
                 calls == BadgerCalls(GrantRoles(org_roles, all_user_roles),
                                      RevokeRoles(org_roles, all_user_roles),
                                      user_id)
             IN  [users |-> ApplyBadger(usersv, calls),
                  events |-> started \o calls,
                  result |-> "ok"]

RefreshNobody(orgsv, usersv, order) ==
    [users |-> usersv, events |-> << >>, result |-> "ok"]

(* for uid in existing_users: self.refresh_roles(uid) *)
RECURSIVE RefreshAll(_, _, _)
RefreshAll(orgsv, usersv, order) ==
    IF order = << >>
    THEN [users |-> usersv, events |-> << >>, result |-> "ok"]
    ELSE LET first == RefreshRoles(orgsv, usersv, Head(order))
         IN  IF first.result # "ok" THEN first
             ELSE LET rest == RefreshAll(orgsv, first.users, Tail(order))
                  IN  [users |-> rest.users,
                       events |-> first.events \o rest.events,
                       result |-> rest.result]

RefreshRolesCall(user_id) ==
    LET r == RefreshRoles(orgs, users, user_id)
    IN  /\ users' = r.users
        /\ last' = Call("refresh_roles", [user_id |-> user_id], r.result, << >>, NoDoc,
                        IF user_id \in DOMAIN users THEN users[user_id] ELSE NoDoc,
                        r.events)
        /\ UNCHANGED <<orgs, schema_defaults, inflight, node>>

---------------------------------------------------------------------------
(* OrgManager.assign_users                                                 *)

ExistingUsers(emails) == {u \in DOMAIN users : users[u].email \in Range(emails)}

UnknownUsers(emails) == Range(emails) \ {users[u].email : u \in ExistingUsers(emails)}

(* set(org_doc.get('members') or []) *)
MembersOf(org_doc) == IF Has(org_doc, "members") THEN org_doc.members ELSE {}

AssignMembersOnlyNew(org_doc, existing_users) == existing_users

(* members = set(org_doc.get('members') or []) | existing_users *)
AssignMembers(org_doc, existing_users) == MembersOf(org_doc) \cup existing_users

AssignUnknownMembers(org_doc, unknown_users) == org_doc.unknown_members \cup unknown_users

NewSeatCount(members, unknown_members) == Cardinality(members) + Cardinality(unknown_members)

ExceedsSeats(new_seat_count, org_doc) == new_seat_count > org_doc.seat_count

UpdateSucceededAlways(status) == TRUE

UpdateSucceeded(status) == status = 200

(* _get_org: organizations.find_one(org_id), None when nothing matches *)
GetOrg(orgsv, org_id) == IF org_id \in DOMAIN orgsv THEN orgsv[org_id] ELSE NoDoc

OrgNotFoundNever(org) == FALSE

(* if org is None: raise ValueError(f'Organization {org_id} not found') *)
OrgNotFound(org) == org = NoDoc

AssignUsers(org_id, emails, status, order) ==
    LET existing_users == ExistingUsers(emails)
        unknown_users  == UnknownUsers(emails)
        Ended(result, error, returned, before, events) ==
            Call("assign_users", [org_id |-> org_id, emails |-> emails],
                 result, error, returned, before, events)
    IN
    /\ order \in Perms(existing_users)
    /\ UNCHANGED <<schema_defaults, inflight, node>>
    /\ LET org_doc == GetOrg(orgs, org_id) IN
       IF OrgNotFound(org_doc)
       THEN \* _get_org raises
            /\ last' = Ended("ValueError", << >>, NoDoc, NoDoc, << >>)
            /\ UNCHANGED <<orgs, users>>
       ELSE
       IF ~Has(org_doc, "unknown_members")
       THEN \* set(None) raises
            /\ last' = Ended("TypeError", << >>, NoDoc, org_doc, << >>)
            /\ UNCHANGED <<orgs, users>>
       ELSE
       LET members         == AssignMembers(org_doc, existing_users)
           unknown_members == AssignUnknownMembers(org_doc, unknown_users)
           new_seat_count  == NewSeatCount(members, unknown_members)
       IN
       IF ExceedsSeats(new_seat_count, org_doc)
       THEN /\ last' = Ended("NotEnoughSeats",
                             <<org_id, org_doc.seat_count, new_seat_count>>,
                             NoDoc, org_doc, << >>)
            /\ UNCHANGED <<orgs, users>>
       ELSE
       LET new_doc == SetField(SetField(org_doc, "members", members),
                               "unknown_members", unknown_members)
           put     == <<Event("put", org_id, status, {}, new_doc)>>
           stored  == PutInternal(orgs, org_id, new_doc, status)
       IN
       IF ~UpdateSucceeded(status)
       THEN /\ orgs' = stored
            /\ last' = Ended("ValueError", << >>, NoDoc, org_doc, put)
            /\ UNCHANGED users
       ELSE
       LET r == RefreshAll(stored, users, order) IN
            /\ orgs' = stored
            /\ users' = r.users
            /\ last' = Ended(r.result, << >>,
                             IF r.result = "ok" THEN new_doc ELSE NoDoc,
                             org_doc, put \o r.events)

---------------------------------------------------------------------------
(* OrgManager.remove_user                                                  *)

(* users_coll.find_one(user_id, projection={'email': 1}) *)
EmailOfUser(user_id) ==
    IF user_id \in DOMAIN users THEN users[user_id].email ELSE None

(* users_coll.find_one({'email': email}, projection={'_id': 1}) *)
UserOfEmail(email) ==
    IF \E u \in DOMAIN users : users[u].email = email
    THEN CHOOSE u \in DOMAIN users : users[u].email = email
    ELSE None

ResolvedEmailAsGiven(user_id, email) == email

(* The email remove_user works with: the one given, else the user's. *)
ResolvedEmail(user_id, email) == IF email = None THEN EmailOfUser(user_id) ELSE email

(* The user id remove_user works with: the one given, else the email's. *)
ResolvedUserId(user_id, email) == IF user_id = None THEN UserOfEmail(email) ELSE user_id

RemoveMembers(org_doc, user_id) == MembersOf(org_doc) \ {user_id}

RemoveUnknownMembers(org_doc, email) == org_doc.unknown_members \ {email}

RemoveUser(org_id, user_id_arg, email_arg, status) ==
    LET email   == ResolvedEmail(user_id_arg, email_arg)
        user_id == ResolvedUserId(user_id_arg, email)
        Ended(result, before, returned, events) ==
            Call("remove_user",
                 [org_id |-> org_id, user_id |-> user_id_arg, email |-> email_arg],
                 result, << >>, returned, before, events)
    IN
    /\ UNCHANGED <<schema_defaults, inflight, node>>
    /\ IF user_id_arg = None /\ email_arg = None
       THEN \* assert user_id or email
            /\ last' = Ended("AssertionError", NoDoc, NoDoc, << >>)
            /\ UNCHANGED <<orgs, users>>
       ELSE
       LET org_doc == GetOrg(orgs, org_id) IN
       IF OrgNotFound(org_doc)
       THEN \* _get_org raises
            /\ last' = Ended("ValueError", NoDoc, NoDoc, << >>)
            /\ UNCHANGED <<orgs, users>>
       ELSE
       LET doc1 == IF user_id # None
                   THEN SetField(org_doc, "members", RemoveMembers(org_doc, user_id))
                   ELSE org_doc
       IN
       IF email # None /\ ~Has(org_doc, "unknown_members")
       THEN \* set(None) raises
            /\ last' = Ended("TypeError", org_doc, NoDoc, << >>)
            /\ UNCHANGED <<orgs, users>>
       ELSE
       LET new_doc == IF email # None
                      THEN SetField(doc1, "unknown_members",
                                    RemoveUnknownMembers(org_doc, email))
                      ELSE doc1
           put     == <<Event("put", org_id, status, {}, new_doc)>>
           stored  == PutInternal(orgs, org_id, new_doc, status)
       IN
       IF ~UpdateSucceeded(status)
       THEN /\ orgs' = stored
            /\ last' = Ended("ValueError", org_doc, NoDoc, put)
            /\ UNCHANGED users
       ELSE
       LET r == IF user_id # None
                THEN RefreshRoles(stored, users, user_id)
                ELSE [users |-> users, events |-> << >>, result |-> "ok"]
       IN   /\ orgs' = stored
            /\ users' = r.users
            /\ last' = Ended(r.result, org_doc,
                             IF r.result = "ok" THEN new_doc ELSE NoDoc,
                             put \o r.events)

---------------------------------------------------------------------------
(* A person registers: the users collection gains a document, created      *)
(* without roles, whose email no user had before.                          *)
Register(u) ==
    /\ u \notin DOMAIN users
    /\ users' = [x \in DOMAIN users \cup {u} |->
                    IF x = u THEN [email |-> EmailOf(u), roles |-> {}] ELSE users[x]]
    /\ last' = Call("register", [user_id |-> u], "ok", << >>, NoDoc, NoDoc, << >>)
    /\ UNCHANGED <<orgs, schema_defaults, inflight, node>>

---------------------------------------------------------------------------

NoCall == Call("init", << >>, "ok", << >>, NoDoc, NoDoc, << >>)

InitUsers == [u \in {"u1"} |-> [email |-> EmailOf(u), roles |-> {"subscriber"}]]

Init ==
    /\ orgs = << >>
    /\ users = InitUsers
    /\ schema_defaults \in BOOLEAN
    /\ last = NoCall
    /\ inflight = << >>
    /\ node = NoDoc

(* One organization, every input. *)
Next ==
    \/ /\ DOMAIN orgs = {}
       /\ \E seat_count \in SeatCounts, org_roles \in OrgRolesArgs,
             status \in {200, 201, 422} :
             CreateNewOrg("org", "u1", seat_count, org_roles, status)
    \/ \E org_id \in OrgIds, emails \in EmailLists, status \in {200, 422} :
          \E order \in Perms(ExistingUsers(emails)) :
             AssignUsers(org_id, emails, status, order)
    \/ \E org_id \in OrgIds, user_id \in UserIds \cup {None},
          email \in Emails \cup {None}, status \in {200, 422} :
          RemoveUser(org_id, user_id, email, status)
    \/ \E u \in UserIds : Register(u)

Spec == Init /\ [][Next]_vars

(* Two organizations, the calls that change memberships of known users. *)
NextOrgs ==
    \/ /\ Cardinality(DOMAIN orgs) < Len(OrgIdSeq)
       /\ \E org_roles \in OrgRolesArgs :
             CreateNewOrg("org", "u1", MaxSeats, org_roles, 201)
    \/ \E org_id \in OrgIds, emails \in {<<"a@x">>, <<"b@x">>, <<"a@x", "b@x">>} :
          \E order \in Perms(ExistingUsers(emails)) :
             AssignUsers(org_id, emails, 200, order)
    \/ \E org_id \in OrgIds, user_id \in UserIds \cup {None},
          email \in {"b@x", None} :
          RemoveUser(org_id, user_id, email, 200)
    \/ \E u \in UserIds : Register(u)

SpecOrgs == Init /\ [][NextOrgs]_vars

(* refresh_roles alone, from any memberships, org_roles and user roles. *)
RefreshOrgDocs ==
    {[name |-> "org", admin_uid |-> "u1", seat_count |-> MaxSeats,
      members |-> m, unknown_members |-> {}, org_roles |-> r] :
        m \in SUBSET {"u1"}, r \in OrgRolesArgs}
    \cup
    {[name |-> "org", admin_uid |-> "u1", seat_count |-> MaxSeats, members |-> {"u1"}]}

InitRefresh ==
    /\ orgs \in [OrgIds -> RefreshOrgDocs]
    /\ \E roles \in SUBSET {"org-A", "org-B", "org-D", "subscriber"} :
          users = [u \in {"u1"} |-> [email |-> EmailOf(u), roles |-> roles]]
    /\ schema_defaults = TRUE
    /\ last = NoCall
    /\ inflight = << >>
    /\ node = NoDoc

NextRefresh == \E user_id \in UserIds : RefreshRolesCall(user_id)

SpecRefresh == InitRefresh /\ [][NextRefresh]_vars

---------------------------------------------------------------------------
(* Properties.  What a property says about a call it reads from `last`     *)
(* and from the stores as the call left them; the sets it compares with    *)
(* are written out here from the statement of the property.                *)

FieldOrEmpty(doc, k) == IF Has(doc, k) THEN doc[k] ELSE {}

SeatsUsed(doc) ==
    Cardinality(FieldOrEmpty(doc, "members")) + Cardinality(FieldOrEmpty(doc, "unknown_members"))

(* The known users an email list names, and the addresses of it no user has. *)
Resolved(emails) == {u \in DOMAIN users : \E i \in DOMAIN emails : users[u].email = emails[i]}

Unresolved(emails) ==
    {emails[i] : i \in DOMAIN emails} \ {users[u].email : u \in DOMAIN users}

EventsOf(kind) == {i \in DOMAIN last.events : last.events[i].kind = kind}

(* The last call was this operation, on an organization that exists. *)
CalledOnOrg(op) == last.op = op /\ last.args.org_id \in DOMAIN orgs

(* C1: in every reachable state, every organization satisfies              *)
(* |members| + |unknown_members| <= seat_count, also right after           *)
(* create_new_org, whatever seat_count the caller passed.                  *)
C1_SeatInvariant == \A o \in DOMAIN orgs : SeatsUsed(orgs[o]) <= orgs[o].seat_count

(* The seats an assign_users call asks for: the organization's members     *)
(* with the resolved users, its unknown members with the unresolved        *)
(* emails.                                                                 *)
AttemptedSeats(org_doc, emails) ==
    Cardinality(FieldOrEmpty(org_doc, "members") \cup Resolved(emails))
    + Cardinality(FieldOrEmpty(org_doc, "unknown_members") \cup Unresolved(emails))

(* C2: an assign_users call that would exceed the seat count raises        *)
(* NotEnoughSeats(org_id, seat_count, attempted total), writes nothing,    *)
(* refreshes no roles and leaves the stored organization as it was.        *)
C2_OverflowRaisesNotEnoughSeats ==
    (/\ CalledOnOrg("assign_users")
     /\ AttemptedSeats(last.before, last.args.emails) > last.before.seat_count)
    => /\ last.result = "NotEnoughSeats"
       /\ last.error = <<last.args.org_id, last.before.seat_count,
                         AttemptedSeats(last.before, last.args.emails)>>
       /\ last.events = << >>
       /\ orgs[last.args.org_id] = last.before

(* C3: assign_users succeeds exactly when the attempted seats fit the seat *)
(* count (the organization exists and the update is accepted), and then    *)
(* stores members = old members with the resolved users and                *)
(* unknown_members = old unknown members with the unresolved emails.       *)
C3_AssignSucceedsWhenSeatsSuffice ==
    (/\ CalledOnOrg("assign_users")
     /\ \A i \in EventsOf("put") : last.events[i].status = 200)
    => /\ last.result = "ok"
            <=> AttemptedSeats(last.before, last.args.emails) <= last.before.seat_count
       /\ last.result = "ok" =>
            /\ FieldOrEmpty(orgs[last.args.org_id], "members")
                 = FieldOrEmpty(last.before, "members") \cup Resolved(last.args.emails)
            /\ FieldOrEmpty(orgs[last.args.org_id], "unknown_members")
                 = FieldOrEmpty(last.before, "unknown_members")
                     \cup Unresolved(last.args.emails)

(* What the stored organization of the last call holds now, and held before. *)
MembersNow == FieldOrEmpty(orgs[last.args.org_id], "members")
UnknownNow == FieldOrEmpty(orgs[last.args.org_id], "unknown_members")
MembersBefore == FieldOrEmpty(last.before, "members")
UnknownBefore == FieldOrEmpty(last.before, "unknown_members")

(* C4: a successful assign_users refreshes the roles of every known user   *)
(* it newly added to members, each refresh (and each grant or revoke) only *)
(* after the updated member sets were stored with status 200; a failed     *)
(* assign_users refreshes nobody.                                          *)
C4_RefreshAfterPersist ==
    last.op = "assign_users" =>
       /\ last.result = "ok" =>
            /\ \A u \in MembersNow \ MembersBefore :
                  \E i \in EventsOf("refresh") : last.events[i].id = u
            /\ \A i \in EventsOf("refresh") \cup EventsOf("grant") \cup EventsOf("revoke") :
                  \E j \in EventsOf("put") :
                     /\ j < i
                     /\ last.events[j].status = 200
                     /\ last.events[j].doc = orgs[last.args.org_id]
       /\ last.result # "ok" =>
            EventsOf("refresh") \cup EventsOf("grant") \cup EventsOf("revoke") = {}

C4_Witness ==
    /\ last.op = "assign_users"
    /\ last.result = "ok"
    /\ Cardinality(MembersNow \ MembersBefore) = 2
    /\ Cardinality(EventsOf("refresh")) = 2
    /\ EventsOf("grant") # {}

(* Whom a remove_user call names: the user given, else the user of the     *)
(* email given; the email given, else the email of the user given.         *)
NamedUsers ==
    IF last.args.user_id # None THEN {last.args.user_id}
    ELSE {u \in DOMAIN users : users[u].email = last.args.email}

NamedEmails ==
    IF last.args.email # None THEN {last.args.email}
    ELSE {users[u].email : u \in {last.args.user_id} \cap DOMAIN users}

(* C5: after a successful remove_user the user named (by id, or by the     *)
(* email of a known user) is not in members and the email named (given, or *)
(* the email of the user given) is not in unknown_members; every other     *)
(* entry of both lists is as before.                                       *)
C5_RemoveCleansBothLists ==
    (last.op = "remove_user" /\ last.result = "ok")
    => /\ MembersNow \cap NamedUsers = {}
       /\ UnknownNow \cap NamedEmails = {}
       /\ MembersNow = MembersBefore \ NamedUsers
       /\ UnknownNow = UnknownBefore \ NamedEmails

C5_Witness ==
    /\ last.op = "remove_user"
    /\ last.result = "ok"
    /\ last.args.email = None
    /\ last.args.user_id \in MembersBefore
    /\ last.args.user_id \in DOMAIN users
    /\ users[last.args.user_id].email \in UnknownBefore
    /\ last.args.user_id \notin MembersNow
    /\ users[last.args.user_id].email \notin UnknownNow

(* The roles organizations give a user: the union of org_roles over the    *)
(* organizations whose members contain the user.                           *)
RolesFromOrgs(u) ==
    UNION {FieldOrEmpty(orgs[o], "org_roles") :
             o \in {x \in DOMAIN orgs : u \in FieldOrEmpty(orgs[x], "members")}}

(* C6: after every completed call, each known user's roles that begin with *)
(* "org-" are the "org-" roles of the organizations the user is a member   *)
(* of; a user in no organization holds none.                               *)
C6_OrgRolesInSync ==
    \A u \in DOMAIN users :
       users[u].roles \cap OrgRoleNames = RolesFromOrgs(u) \cap OrgRoleNames

C6_Witness ==
    /\ last.op = "remove_user"
    /\ last.result = "ok"
    /\ \E i \in EventsOf("revoke") :
          /\ last.events[i].roles # {}
          /\ last.events[i].id \in DOMAIN users
          /\ \A o \in DOMAIN orgs : last.events[i].id \notin FieldOrEmpty(orgs[o], "members")
          /\ users[last.events[i].id].roles \cap OrgRoleNames = {}
    /\ \E o \in DOMAIN orgs : FieldOrEmpty(orgs[o], "members") # {}

Granted == UNION {last.events[i].roles : i \in EventsOf("grant")}
Revoked == UNION {last.events[i].roles : i \in EventsOf("revoke")}

(* C7: refresh_roles(user) grants exactly the roles of A, the union of     *)
(* org_roles over the user's organizations, that the user does not hold,   *)
(* and revokes exactly the "org-" roles the user holds that are not in A.  *)
C7_RefreshGrantsAndRevokes ==
    (last.op = "refresh_roles" /\ last.result = "ok")
    => /\ Granted = RolesFromOrgs(last.args.user_id) \ last.before.roles
       /\ Revoked = (last.before.roles \cap OrgRoleNames) \ RolesFromOrgs(last.args.user_id)

(* organizations with org_roles {A, B} and {B, C}, a user holding          *)
(* {org-A, org-D}: grants {B, C}, revokes {D}                              *)
C7_Witness ==
    /\ last.op = "refresh_roles"
    /\ last.result = "ok"
    /\ {FieldOrEmpty(orgs[o], "org_roles") : o \in DOMAIN orgs}
          = {{"org-A", "org-B"}, {"org-B", "org-C"}}
    /\ \A o \in DOMAIN orgs : last.args.user_id \in FieldOrEmpty(orgs[o], "members")
    /\ last.before.roles = {"org-A", "org-D"}
    /\ Granted = {"org-B", "org-C"}
    /\ Revoked = {"org-D"}

(* C8: a refresh makes at most one grant call and at most one revoke call  *)
(* for its user, none with an empty role set, and what it grants and what  *)
(* it revokes are disjoint.                                                 *)
C8_OneBatchEach ==
    /\ \A u \in UserIds :
          \A kind \in {"grant", "revoke"} :
             Cardinality({i \in EventsOf(kind) : last.events[i].id = u})
                <= Cardinality({i \in EventsOf("refresh") : last.events[i].id = u})
    /\ last.op \in {"refresh_roles", "remove_user"} =>
          Cardinality(EventsOf("grant")) <= 1 /\ Cardinality(EventsOf("revoke")) <= 1
    /\ \A i \in EventsOf("grant") \cup EventsOf("revoke") : last.events[i].roles # {}
    /\ \A i \in EventsOf("grant") : \A j \in EventsOf("revoke") :
          last.events[i].id = last.events[j].id
             => last.events[i].roles \cap last.events[j].roles = {}

C8_Witness ==
    /\ last.op = "refresh_roles"
    /\ Cardinality(EventsOf("grant")) = 1
    /\ Cardinality(EventsOf("revoke")) = 1
    /\ Cardinality(Granted) >= 2
    /\ Len(last.events) = 3

(* C9: when the update of assign_users or remove_user answers a status     *)
(* other than 200 the call raises at once: one update attempt, no refresh, *)
(* no other write, the stored organization as before.                      *)
C9_FailedUpdateRaises ==
    (/\ last.op \in {"assign_users", "remove_user"}
     /\ \E i \in EventsOf("put") : last.events[i].status # 200)
    => /\ last.result = "ValueError"
       /\ Len(last.events) = 1
       /\ orgs[last.args.org_id] = last.before

C9_Witness ==
    /\ last.op = "remove_user"
    /\ last.result = "ValueError"
    /\ Len(last.events) = 1
    /\ last.events[1].kind = "put"
    /\ last.events[1].status = 422
    /\ last.events[1].doc # last.before
    /\ last.args.user_id \in DOMAIN users

(* C10: create_new_org posts one document with name, admin_uid and         *)
(* seat_count, and with org_roles only when a non-empty org_roles was      *)
(* given; it returns the document, merged with the response, only on       *)
(* status 201 and raises after that one attempt on any other status.       *)
C10_CreatePostsOnce ==
    last.op = "create_new_org" =>
       /\ Len(last.events) = 1
       /\ last.events[1].kind = "post"
       /\ LET doc == last.events[1].doc IN
             /\ {"name", "admin_uid", "seat_count"} \subseteq DOMAIN doc
             /\ DOMAIN doc \subseteq {"name", "admin_uid", "seat_count", "org_roles"}
             /\ doc.name = last.args.name
             /\ doc.admin_uid = last.args.admin_uid
             /\ doc.seat_count = last.args.seat_count
             /\ Has(doc, "org_roles") <=> last.args.org_roles # {}
             /\ Has(doc, "org_roles") => doc.org_roles = last.args.org_roles
             /\ last.result = "ok" =>
                   /\ \A f \in DOMAIN doc : Has(last.returned, f) /\ last.returned[f] = doc[f]
                   /\ Has(last.returned, "_id")
                   /\ last.returned._id \in DOMAIN orgs
       /\ last.result = "ok" <=> last.events[1].status = 201
       /\ last.result # "ok" =>
             /\ last.result = "ValueError"
             /\ last.returned = NoDoc
             /\ last.events[1].id \notin DOMAIN orgs

C10_Witness ==
    /\ last.op = "create_new_org"
    /\ last.result = "ValueError"
    /\ last.events[1].status = 200
    /\ Has(last.events[1].doc, "org_roles")
    /\ DOMAIN orgs = {}

---------------------------------------------------------------------------
(* Calls on an organization that does not exist.                           *)

(* class OrganizationError(Exception) and its subclass NotEnoughSeats *)
OrganizationErrors == {"OrganizationError", "NotEnoughSeats"}

(* The call that produced the next state named an org_id no document has. *)
OnUnknownOrg(call, orgsv) ==
    /\ call.op \in {"assign_users", "remove_user"}
    /\ call.args.org_id \notin DOMAIN orgsv

(* C11, as stated: assign_users and remove_user on an org_id that matches  *)
(* no organization raise one of the module's own organization errors and   *)
(* call no collaborator.                                                   *)
C11_UnknownOrgRaisesDomainError ==
    OnUnknownOrg(last, orgs) =>
       /\ last.result \in OrganizationErrors
       /\ last.events = << >>

(* C11: assign_users and remove_user on an org_id that matches no          *)
(* organization raise to the caller, with the built-in ValueError of       *)
(* _get_org (remove_user given neither a user id nor an email fails its    *)
(* assertion before it looks the organization up), return nothing, call no *)
(* collaborator and leave every organization and every user as they were.  *)
C11_UnknownOrgRaisesValueError ==
    [][OnUnknownOrg(last', orgs) =>
          /\ last'.result =
                IF /\ last'.op = "remove_user"
                   /\ last'.args.user_id = None
                   /\ last'.args.email = None
                THEN "AssertionError" ELSE "ValueError"
          /\ last'.result \notin OrganizationErrors
          /\ last'.returned = NoDoc
          /\ last'.events = << >>
          /\ orgs' = orgs
          /\ users' = users]_vars

(* assign_users has named a missing organization while another one exists  *)
(* and holds a member. *)
C11_Witness ==
    /\ OnUnknownOrg(last, orgs)
    /\ last.op = "assign_users"
    /\ last.args.emails # << >>
    /\ last.result = "ValueError"
    /\ \E o \in DOMAIN orgs : MembersOf(orgs[o]) # {}

---------------------------------------------------------------------------
(* Two requests at once.  assign_users and remove_user read the            *)
(* organization document with _get_org, change their copy of it and write  *)
(* the whole copy back with put_internal; nothing holds the document       *)
(* between the read and the write.  Each method is therefore two steps, and*)
(* steps of different requests interleave.  inflight[r] is what request r  *)
(* holds after its read: its arguments, the users and addresses it         *)
(* resolved, and its copy of the document; once r has ended it keeps how r *)
(* ended, the document r's write replaced and the document r wrote.        *)

ReqIds == {"r1", "r2"}

RaceEmailLists == {<<"a@x">>, <<"b@x">>, <<"c@x">>, <<"a@x", "b@x">>}

Held(op, args, user_ids, emails, org_doc) ==
    [phase |-> "read", op |-> op, args |-> args, users |-> user_ids,
     emails |-> emails, org_doc |-> org_doc, result |-> "running",
     overwrote |-> NoDoc, wrote |-> NoDoc]

EndedRequest(h, result, overwrote, wrote) ==
    [h EXCEPT !.phase = "done", !.result = result, !.overwrote = overwrote,
              !.wrote = wrote]

Hold(r, h) == [x \in DOMAIN inflight \cup {r} |-> IF x = r THEN h ELSE inflight[x]]

(* assign_users up to and including org_doc = self._get_org(org_id) *)
AssignRead(r, org_id, emails) ==
    LET existing_users == ExistingUsers(emails)
        unknown_users  == UnknownUsers(emails)
        org_doc        == GetOrg(orgs, org_id)
        h == Held("assign_users", [org_id |-> org_id, emails |-> emails],
                  existing_users, unknown_users, org_doc)
    IN
    /\ r \notin DOMAIN inflight
    /\ IF OrgNotFound(org_doc)
       THEN /\ inflight' = Hold(r, EndedRequest(h, "ValueError", NoDoc, NoDoc))
            /\ last' = Call("assign_users", h.args, "ValueError", << >>,
                            NoDoc, NoDoc, << >>)
       ELSE /\ inflight' = Hold(r, h)
            /\ UNCHANGED last
    /\ UNCHANGED <<orgs, users, schema_defaults, node>>

(* assign_users from the computation of the new lists to the end *)
AssignWrite(r, status, order) ==
    /\ r \in DOMAIN inflight
    /\ inflight[r].phase = "read"
    /\ inflight[r].op = "assign_users"
    /\ order \in Perms(inflight[r].users)
    /\ UNCHANGED <<schema_defaults, node>>
    /\ LET h       == inflight[r]
           org_id  == h.args.org_id
           org_doc == h.org_doc
           Ended(result, error, returned, events) ==
               /\ last' = Call("assign_users", h.args, result, error, returned,
                               org_doc, events)
               /\ inflight' = Hold(r, EndedRequest(h, result, orgs[org_id],
                                      IF events = << >> THEN NoDoc ELSE events[1].doc))
       IN
       IF ~Has(org_doc, "unknown_members")
       THEN /\ Ended("TypeError", << >>, NoDoc, << >>)
            /\ UNCHANGED <<orgs, users>>
       ELSE
       LET members         == AssignMembers(org_doc, h.users)
           unknown_members == AssignUnknownMembers(org_doc, h.emails)
           new_seat_count  == NewSeatCount(members, unknown_members)
       IN
       IF ExceedsSeats(new_seat_count, org_doc)
       THEN /\ Ended("NotEnoughSeats",
                     <<org_id, org_doc.seat_count, new_seat_count>>, NoDoc, << >>)
            /\ UNCHANGED <<orgs, users>>
       ELSE
       LET new_doc == SetField(SetField(org_doc, "members", members),
                               "unknown_members", unknown_members)
           put     == <<Event("put", org_id, status, {}, new_doc)>>
           stored  == PutInternal(orgs, org_id, new_doc, status)
       IN
       IF ~UpdateSucceeded(status)
       THEN /\ orgs' = stored
            /\ Ended("ValueError", << >>, NoDoc, put)
            /\ UNCHANGED users
       ELSE
       LET rr == RefreshAll(stored, users, order) IN
            /\ orgs' = stored
            /\ users' = rr.users
            /\ Ended(rr.result, << >>,
                     IF rr.result = "ok" THEN new_doc ELSE NoDoc,
                     put \o rr.events)

(* remove_user up to and including org_doc = self._get_org(org_id) *)
RemoveRead(r, org_id, user_id_arg, email_arg) ==
    LET email   == ResolvedEmail(user_id_arg, email_arg)
        user_id == ResolvedUserId(user_id_arg, email)
        org_doc == GetOrg(orgs, org_id)
        h == Held("remove_user",
                  [org_id |-> org_id, user_id |-> user_id_arg, email |-> email_arg],
                  {user_id} \ {None}, {email} \ {None}, org_doc)
        Raised(result) ==
            /\ inflight' = Hold(r, EndedRequest(h, result, NoDoc, NoDoc))
            /\ last' = Call("remove_user", h.args, result, << >>, NoDoc, NoDoc, << >>)
    IN
    /\ r \notin DOMAIN inflight
    /\ IF user_id_arg = None /\ email_arg = None
       THEN Raised("AssertionError")
       ELSE IF OrgNotFound(org_doc)
       THEN Raised("ValueError")
       ELSE /\ inflight' = Hold(r, h)
            /\ UNCHANGED last
    /\ UNCHANGED <<orgs, users, schema_defaults, node>>

(* remove_user from the computation of the new lists to the end *)
RemoveWrite(r, status) ==
    /\ r \in DOMAIN inflight
    /\ inflight[r].phase = "read"
    /\ inflight[r].op = "remove_user"
    /\ UNCHANGED <<schema_defaults, node>>
    /\ LET h       == inflight[r]
           org_id  == h.args.org_id
           org_doc == h.org_doc
           Ended(result, returned, events) ==
               /\ last' = Call("remove_user", h.args, result, << >>, returned,
                               org_doc, events)
               /\ inflight' = Hold(r, EndedRequest(h, result, orgs[org_id],
                                      IF events = << >> THEN NoDoc ELSE events[1].doc))
           doc1 == IF h.users # {}
                   THEN SetField(org_doc, "members",
                                 MembersOf(org_doc) \ h.users)
                   ELSE org_doc
       IN
       IF h.emails # {} /\ ~Has(org_doc, "unknown_members")
       THEN /\ Ended("TypeError", NoDoc, << >>)
            /\ UNCHANGED <<orgs, users>>
       ELSE
       LET new_doc == IF h.emails # {}
                      THEN SetField(doc1, "unknown_members",
                                    org_doc.unknown_members \ h.emails)
                      ELSE doc1
           put     == <<Event("put", org_id, status, {}, new_doc)>>
           stored  == PutInternal(orgs, org_id, new_doc, status)
       IN
       IF ~UpdateSucceeded(status)
       THEN /\ orgs' = stored
            /\ Ended("ValueError", NoDoc, put)
            /\ UNCHANGED users
       ELSE
       LET rr == IF h.users # {}
                 THEN RefreshRoles(stored, users, CHOOSE u \in h.users : TRUE)
                 ELSE [users |-> users, events |-> << >>, result |-> "ok"]
       IN   /\ orgs' = stored
            /\ users' = rr.users
            /\ Ended(rr.result,
                     IF rr.result = "ok" THEN new_doc ELSE NoDoc,
                     put \o rr.events)

(* One organization with free seats, as create_new_org and the store's     *)
(* defaults leave it, and nobody in it yet.                                *)
InitRace ==
    /\ \E seat_count \in 1 .. MaxSeats, org_roles \in {{}, {"org-A", "org-B"}} :
          orgs = [o \in {"o1"} |->
                    PostInternalStored(
                        CreateOrgDoc("org", "u1", seat_count, org_roles), TRUE)]
    /\ users = InitUsers
    /\ schema_defaults = TRUE
    /\ last = NoCall
    /\ inflight = << >>
    /\ node = NoDoc

NextRace ==
    \/ \E r \in ReqIds, org_id \in OrgIds, emails \in RaceEmailLists :
          AssignRead(r, org_id, emails)
    \/ \E r \in DOMAIN inflight : \E order \in Perms(inflight[r].users) :
          AssignWrite(r, 200, order)
    \/ \E r \in ReqIds, org_id \in OrgIds, user_id \in UserIds \cup {None},
          email \in {"b@x", None} :
          RemoveRead(r, org_id, user_id, email)
    \/ \E r \in DOMAIN inflight : RemoveWrite(r, 200)

SpecRace == InitRace /\ [][NextRace]_vars

(* The requests that ran to their end without raising. *)
Succeeded == {r \in DOMAIN inflight : inflight[r].phase = "done" /\ inflight[r].result = "ok"}

(* Request r wrote over a document other than the one it had read. *)
WroteFromStaleRead(r) == inflight[r].overwrote # inflight[r].org_doc

(* Everyone a document seats: member ids and unknown addresses. *)
Seated(doc) == MembersOf(doc) \cup FieldOrEmpty(doc, "unknown_members")

(* Whom request r was asked to add, and whom to remove. *)
AskedToAdd(r) ==
    IF inflight[r].op = "assign_users"
    THEN inflight[r].users \cup inflight[r].emails ELSE {}

AskedToRemove(r) ==
    IF inflight[r].op = "remove_user"
    THEN inflight[r].users \cup inflight[r].emails ELSE {}

(* C12: membership updates are a read-modify-write without atomicity.  A   *)
(* request that succeeds after reading the document as it is still stored  *)
(* when it writes loses nothing: what it writes seats everyone the         *)
(* replaced document seated, except whom it was asked to remove, and       *)
(* everyone it was asked to add.  A change is lost only by a write from a  *)
(* stale read, and that state is reachable (C12_Witness).                  *)
C12_FreshWriteLosesNothing ==
    \A r \in Succeeded :
       ~WroteFromStaleRead(r) =>
          /\ Seated(inflight[r].overwrote) \ AskedToRemove(r) \subseteq Seated(inflight[r].wrote)
          /\ AskedToAdd(r) \subseteq Seated(inflight[r].wrote)
          /\ AskedToRemove(r) \cap Seated(inflight[r].wrote) = {}

(* Two assign_users requests on one organization have both succeeded, none *)
(* raised NotEnoughSeats, nobody was removed, and someone the first one    *)
(* added is no longer seated: the second wrote its stale copy over it.     *)
C12_Witness ==
    \E r1, r2 \in Succeeded :
       /\ r1 # r2
       /\ inflight[r1].op = "assign_users"
       /\ inflight[r2].op = "assign_users"
       /\ inflight[r1].args.org_id = inflight[r2].args.org_id
       /\ WroteFromStaleRead(r2)
       /\ orgs[inflight[r2].args.org_id] = inflight[r2].wrote
       /\ AskedToAdd(r1) \ Seated(orgs[inflight[r1].args.org_id]) # {}

---------------------------------------------------------------------------
(* Node properties and their coercion                                      *)
(* (ValidateCustomFields.convert_properties, convert_dict_values).         *)
(*                                                                         *)
(* A Python value carries its type in the one field it has: a str is       *)
(* [str |-> s], None is [none |-> ..], a list [list |-> <<..>>], a dict    *)
(* [dict |-> mapping], an ObjectId [oid |-> hex] and a datetime            *)
(* [datetime |-> <<Y, m, d, H, M, S>>, tzinfo |-> ..]; a mapping is a      *)
(* function from its keys.  A node schema is a dict in Python and is       *)
(* iterated in order: here [fields |-> a sequence of [name, rule]].        *)
(* convert_properties changes the mapping it is given in place, so what a  *)
(* call leaves behind is the mapping as changed so far, whether it returns *)
(* or raises: [value |-> that mapping, exc |-> the exception or NoExc,     *)
(* at |-> the field of the outermost schema whose turn raised it].         *)

Str(s) == [str |-> s]
PyNone == [none |-> "None"]
PyInt(n) == [int |-> n]
Bool(b) == [bool |-> b]
List(items) == [list |-> items]
Dict(mapping) == [dict |-> mapping]
ObjectId(hex) == [oid |-> hex]
Datetime(fields, tzinfo) == [datetime |-> fields, tzinfo |-> tzinfo]

IsStr(x) == DOMAIN x = {"str"}
IsNone(x) == DOMAIN x = {"none"}
IsInt(x) == DOMAIN x = {"int"}
IsBool(x) == DOMAIN x = {"bool"}
IsList(x) == DOMAIN x = {"list"}
IsDict(x) == DOMAIN x = {"dict"}
IsObjectId(x) == DOMAIN x = {"oid"}
IsDatetime(x) == DOMAIN x = {"datetime", "tzinfo"}

TruthyAlways(x) == TRUE

(* `if prop_val:` *)
Truthy(x) ==
    CASE IsStr(x)  -> x.str # ""
      [] IsNone(x) -> FALSE
      [] IsInt(x)  -> x.int # 0
      [] IsBool(x) -> x.bool
      [] IsList(x) -> x.list # << >>
      [] IsDict(x) -> DOMAIN x.dict # {}
      [] OTHER     -> TRUE

NoExc == "no exception"

NoField == "no field"

Returned(value) == [value |-> value, exc |-> NoExc, at |-> NoField]

Raised(value, exc) == [value |-> value, exc |-> exc, at |-> NoField]

(* The strings of 24 hexadecimal digits among the strings of the model,    *)
(* and the lower-case form an ObjectId keeps of them.                      *)
HexStrings ==
    {"507f1f77bcf86cd799439011", "507F1F77BCF86CD799439011",
     "000000000000000000000000"}

HexOf(s) == IF s = "507F1F77BCF86CD799439011" THEN "507f1f77bcf86cd799439011" ELSE s

(* bson.ObjectId(prop_val), for a value that is not falsy *)
MakeObjectId(x) ==
    CASE IsObjectId(x)                   -> Returned(x)
      [] IsStr(x) /\ x.str \in HexStrings -> Returned(ObjectId(HexOf(x.str)))
      [] IsStr(x)                        -> Raised(x, "InvalidId")
      [] OTHER                           -> Raised(x, "TypeError")

(* The strings that match RFC1123_DATE_FORMAT, with the calendar fields    *)
(* strptime reads from them.                                               *)
DateStrings ==
    [s \in {"Wed, 01 Jan 2020 00:00:00 GMT", "Thu, 31 Dec 2020 23:59:59 GMT"} |->
        IF s = "Wed, 01 Jan 2020 00:00:00 GMT"
        THEN <<2020, 1, 1, 0, 0, 0>> ELSE <<2020, 12, 31, 23, 59, 59>>]

(* datetime.strptime(prop_val, date_format): a naive datetime *)
Strptime(x) ==
    CASE IsStr(x) /\ x.str \in DOMAIN DateStrings
                    -> Returned(Datetime(DateStrings[x.str], "None"))
      [] IsStr(x)   -> Raised(x, "ValueError")
      [] OTHER      -> Raised(x, "TypeError")

ReplaceTzinfoKeepsNaive(dt) == dt

(* prop_naieve.replace(tzinfo=tz_util.utc): same calendar fields *)
ReplaceTzinfoUtc(dt) == Datetime(dt.datetime, "UTC")

(* The order in which a dict yields its keys. *)
RECURSIVE KeySeq(_)
KeySeq(keys) ==
    IF keys = {} THEN << >>
    ELSE LET k == CHOOSE x \in keys : TRUE IN <<k>> \o KeySeq(keys \ {k})

PropTypeObjectId(schema_prop) == "objectid"

(* prop_type = schema_prop['type'] *)
PropType(schema_prop) == schema_prop.type

EmptyListSentinelOnlyBlank(val) == val = Str("")

(* properties[prop] in ['', '[]'] *)
EmptyListSentinel(val) == val \in {Str(""), Str("[]")}

Schema(fields) == [fields |-> fields]

ItemSchema(rule) == Schema(<<[name |-> "item", rule |-> rule]>>)

ItemProp(val) == [k \in {"item"} |-> val]

RECURSIVE ConvertProperties(_, _)
RECURSIVE ConvertFrom(_, _, _)
RECURSIVE ConvertProp(_, _, _)
RECURSIVE ConvertItems(_, _, _)
RECURSIVE ConvertDictValues(_, _)
RECURSIVE ConvertValuesFrom(_, _, _, _)

(* for k, val in enumerate(properties[prop]): the items from the k-th on *)
ConvertItems(items, k, item_rule) ==
    IF k > Len(items) THEN Returned(items)
    ELSE LET c == ConvertProperties(ItemProp(items[k]), ItemSchema(item_rule)) IN
         IF c.exc # NoExc THEN Raised(items, c.exc)
         ELSE ConvertItems([items EXCEPT ![k] = c.value.item], k + 1, item_rule)

(* for key, val in dict_property.items(): the keys from the i-th on *)
ConvertValuesFrom(mapping, keys, i, dict_valueschema) ==
    IF i > Len(keys) THEN Returned(mapping)
    ELSE LET c == ConvertProperties(ItemProp(mapping[keys[i]]),
                                    ItemSchema(dict_valueschema)) IN
         IF c.exc # NoExc THEN Raised(mapping, c.exc)
         ELSE ConvertValuesFrom([mapping EXCEPT ![keys[i]] = c.value.item],
                                keys, i + 1, dict_valueschema)

ConvertDictValues(dict_property, dict_valueschema) ==
    IF dict_valueschema.type # "dict" THEN Raised(dict_property, "AssertionError")
    ELSE IF ~IsDict(dict_property) THEN Raised(dict_property, "AssertionError")
    ELSE LET c == ConvertValuesFrom(dict_property.dict,
                                    KeySeq(DOMAIN dict_property.dict), 1,
                                    dict_valueschema)
         IN  [c EXCEPT !.value = Dict(c.value)]

DictValueSchemaNewNameOnly(schema_prop) ==
    IF Has(schema_prop, "valuesrules") THEN schema_prop.valuesrules ELSE NoDoc

(* schema_prop.get('valuesrules') or schema_prop.get('valueschema'): the    *)
(* rule for the values, None when the field declares neither               *)
DictValueSchema(schema_prop) ==
    IF Has(schema_prop, "valuesrules") THEN schema_prop.valuesrules
    ELSE IF Has(schema_prop, "valueschema") THEN schema_prop.valueschema
    ELSE NoDoc

(* One turn of the loop of convert_properties, for a field of the schema   *)
(* that the properties carry.                                              *)
ConvertProp(properties, prop, schema_prop) ==
    LET val == properties[prop]
        Set(v) == [properties EXCEPT ![prop] = v]
        ValuesRules(props) ==
            \* except KeyError: the rule for the values, under either name
            LET dict_valueschema == DictValueSchema(schema_prop) IN
            IF dict_valueschema = NoDoc
            THEN Raised(props, "KeyError")
            ELSE LET c == ConvertDictValues(props[prop], dict_valueschema)
                 IN  [c EXCEPT !.value = [props EXCEPT ![prop] = c.value]]
    IN
    CASE PropType(schema_prop) = "dict" ->
            IF ~Has(schema_prop, "schema") THEN ValuesRules(properties)
            ELSE IF IsDict(val)
            THEN LET c == ConvertProperties(val.dict, schema_prop.schema) IN
                 IF c.exc = "KeyError" THEN ValuesRules(Set(Dict(c.value)))
                 ELSE [c EXCEPT !.value = Set(Dict(c.value))]
            ELSE \* `prop not in properties` on a value that is no dict: a
                 \* str or a list holds none of the names, any other value
                 \* is no container
                 IF schema_prop.schema.fields = << >> \/ IsStr(val) \/ IsList(val)
                 THEN Returned(properties)
                 ELSE Raised(properties, "TypeError")
      [] PropType(schema_prop) = "list" ->
            LET emptied == IF EmptyListSentinel(val) THEN List(<< >>) ELSE val IN
            IF ~Has(schema_prop, "schema") THEN Returned(Set(emptied))
            ELSE IF IsList(emptied)
            THEN LET c == ConvertItems(emptied.list, 1, schema_prop.schema) IN
                 [c EXCEPT !.value = Set(List(c.value))]
            ELSE \* enumerate() of a value that is not iterable
                 Raised(Set(emptied), "TypeError")
      [] PropType(schema_prop) = "datetime" ->
            LET prop_naieve == Strptime(val) IN
            IF prop_naieve.exc # NoExc THEN Raised(properties, prop_naieve.exc)
            ELSE Returned(Set(ReplaceTzinfoUtc(prop_naieve.value)))
      [] PropType(schema_prop) = "objectid" ->
            IF Truthy(val)
            THEN LET oid == MakeObjectId(val) IN
                 IF oid.exc # NoExc THEN Raised(properties, oid.exc)
                 ELSE Returned(Set(oid.value))
            ELSE Returned(Set(PyNone))
      [] OTHER -> Returned(properties)

(* for prop in node_schema: the fields from the i-th on *)
ConvertFrom(properties, node_schema, i) ==
    IF i > Len(node_schema.fields) THEN Returned(properties)
    ELSE LET prop == node_schema.fields[i].name IN
         IF prop \notin DOMAIN properties
         THEN ConvertFrom(properties, node_schema, i + 1)
         ELSE LET c == ConvertProp(properties, prop, node_schema.fields[i].rule) IN
              IF c.exc # NoExc THEN [c EXCEPT !.at = prop]
              ELSE ConvertFrom(c.value, node_schema, i + 1)

ConvertProperties(properties, node_schema) == ConvertFrom(properties, node_schema, 1)

---------------------------------------------------------------------------
(* convert_properties on its own: a schema and a properties mapping are    *)
(* chosen, and the function is applied to the mapping, then again to what  *)
(* it returned.                                                            *)

MaxPasses == 2

Field(name, rule) == [name |-> name, rule |-> rule]

Rule(type) == [type |-> type]

(* Every mapping that carries some of the keys of cands, each with one of  *)
(* the values cands lists for it.                                          *)
Mappings(cands) ==
    UNION {{f \in [S -> UNION {cands[k] : k \in S}] : \A k \in S : f[k] \in cands[k]} :
              S \in SUBSET DOMAIN cands}

Hex == "507f1f77bcf86cd799439011"
HexUpper == "507F1F77BCF86CD799439011"
Date1 == "Wed, 01 Jan 2020 00:00:00 GMT"
Date2 == "Thu, 31 Dec 2020 23:59:59 GMT"

(* s declares the value the validator gives the field when it is absent *)
ScalarSchema ==
    Schema(<<Field("d", Rule("datetime")), Field("o", Rule("objectid")),
             Field("s", [type |-> "string", default |-> Str("untitled")])>>)

(* x is a field the schema does not name *)
ScalarCands ==
    [d |-> {Str(Date1), Str("text")},
     o |-> {Str(""), Str(Hex), Str(HexUpper), Str("not-an-id"), PyNone, PyInt(0)},
     s |-> {Str(""), Str("text")},
     x |-> {Str(Hex)}]

ListSchema ==
    Schema(<<Field("l", [type |-> "list", schema |-> Rule("objectid")]),
             Field("m", Rule("list")),
             Field("t", [type |-> "list", schema |-> Rule("datetime")]),
             Field("r", [type |-> "list",
                         schema |-> [type |-> "dict",
                                     schema |-> Schema(<<Field("o", Rule("objectid"))>>)]])>>)

ListCands ==
    [l |-> {Str(""), Str("[]"), List(<< >>), List(<<Str(Hex)>>),
            List(<<Str(HexUpper), Str(""), Str(Hex)>>),
            List(<<Str(Hex), Str("not-an-id")>>), PyNone},
     m |-> {Str(""), Str("[]"), List(<<Str("text"), Str(Hex)>>), PyNone},
     t |-> {List(<<Str(Date1), Str("text"), Str(Date2)>>),
            List(<<Str(Date2), Str(Date1)>>)},
     r |-> {List(<<Dict([o |-> Str(Hex), z |-> Str("text")]), Dict(<< >>)>>)}]

(* b declares both a schema, one of whose fields declares no rule, and a   *)
(* rule for its values; k declares no rule for its values and a declares   *)
(* one that is no dict                                                     *)
DictSchema ==
    Schema(<<Field("n", [type |-> "dict",
                         schema |-> Schema(<<Field("o", Rule("objectid")),
                                             Field("d", Rule("datetime"))>>)]),
             Field("v", [type |-> "dict",
                         valuesrules |->
                            [type |-> "dict",
                             schema |-> Schema(<<Field("o", Rule("objectid"))>>)]]),
             Field("b", [type |-> "dict",
                         schema |->
                            Schema(<<Field("p", [type |-> "dict",
                                                 schema |-> Schema(<<Field("o", Rule("objectid"))>>)]),
                                     Field("e", Rule("dict"))>>),
                         valuesrules |->
                            [type |-> "dict",
                             schema |-> Schema(<<Field("z", Rule("objectid"))>>)]]),
             Field("k", Rule("dict")),
             Field("a", [type |-> "dict", valueschema |-> Rule("objectid")])>>)

DictCands ==
    [n |-> {Dict(<< >>), Dict([o |-> Str(Hex), z |-> Str("text")]),
            Dict([o |-> Str(""), d |-> Str(Date1), z |-> Str("text")]),
            Dict([o |-> Str(Hex), d |-> Str("text")]),
            PyNone, Str("text")},
     v |-> {Dict(<< >>),
            Dict([p |-> Dict([o |-> Str(Hex)]),
                  q |-> Dict([o |-> Str(""), z |-> Str(Hex)])]),
            Dict([p |-> Dict([o |-> Str("not-an-id")])]),
            Dict([p |-> Str("text")])},
     b |-> {Dict([p |-> Dict([o |-> Str(Hex), z |-> Str(Hex)]),
                  q |-> Dict([o |-> Str(Hex), z |-> Str(Hex)])]),
            Dict([p |-> Dict([o |-> Str(Hex), z |-> Str(Hex)]),
                  e |-> Dict([z |-> Str(HexUpper)])])},
     k |-> {Dict(<< >>)},
     a |-> {Dict([p |-> Str(Hex)])}]

CoerceInputs ==
    {[schema |-> ScalarSchema, properties |-> p] : p \in Mappings(ScalarCands)}
    \cup {[schema |-> ListSchema, properties |-> p] : p \in Mappings(ListCands)}
    \cup {[schema |-> DictSchema, properties |-> p] : p \in Mappings(DictCands)}

(* node in this specification: the schema, the mapping as it is now, the   *)
(* mapping the last call was given, how that call ended and how many calls *)
(* there were.                                                             *)
InitCoerce ==
    /\ orgs = << >>
    /\ users = InitUsers
    /\ schema_defaults = TRUE
    /\ last = NoCall
    /\ inflight = << >>
    /\ \E input \in CoerceInputs :
          node = [schema |-> input.schema, properties |-> input.properties,
                  before |-> input.properties, exc |-> NoExc, at |-> NoField,
                  passes |-> 0]

Coerce ==
    /\ node.passes < MaxPasses
    /\ node.exc = NoExc
    /\ LET c == ConvertProperties(node.properties, node.schema) IN
          node' = [node EXCEPT !.properties = c.value, !.before = node.properties,
                               !.exc = c.exc, !.at = c.at, !.passes = @ + 1]
    /\ UNCHANGED <<orgs, users, schema_defaults, last, inflight>>

NextCoerce == Coerce

SpecCoerce == InitCoerce /\ [][NextCoerce]_vars

---------------------------------------------------------------------------
(* Properties of convert_properties.  `node.before` is the mapping the     *)
(* last call was given and `node.properties` the mapping it left.          *)

(* The rule the schema declares for a field, and where. *)
Declares(schema, k) == \E i \in DOMAIN schema.fields : schema.fields[i].name = k

IndexOf(schema, k) == CHOOSE i \in DOMAIN schema.fields : schema.fields[i].name = k

RuleOf(schema, k) == schema.fields[IndexOf(schema, k)].rule

(* The first call got as far as the turn of field k and that turn ended    *)
(* without raising.                                                        *)
TurnCompleted(k) ==
    \/ node.exc = NoExc
    \/ IndexOf(node.schema, node.at) > IndexOf(node.schema, k)

(* The first call raised before the turn of field k. *)
RaisedEarlier(k) ==
    /\ node.exc # NoExc
    /\ IndexOf(node.schema, node.at) < IndexOf(node.schema, k)

(* The fields of the first call that the schema declares with the given    *)
(* type and the properties carried.                                        *)
FieldsOfType(type) ==
    {k \in DOMAIN node.before :
        Declares(node.schema, k) /\ RuleOf(node.schema, k).type = type}

(* C16, as stated: coercion is idempotent.  Whenever convert_properties    *)
(* has returned, applying it with the same schema to the mapping it        *)
(* returned raises nothing and returns an equal mapping.                   *)
C16_CoercionIdempotent ==
    node.passes >= 2 =>
       /\ node.exc = NoExc
       /\ node.properties = node.before

(* C17: convert_properties is a frame around the declared dict, list,      *)
(* datetime and objectid fields.  When it returns, the mapping has the     *)
(* keys it had, and so has every nested mapping; a field the schema does   *)
(* not name, or declares with another type, has the value it had.          *)
(* Below a dict field whose rule declares a 'schema' and no values schema  *)
(* the same holds of the nested mapping against that 'schema'.             *)
CoercedTypes == {"dict", "list", "datetime", "objectid"}

RECURSIVE SameKeys(_, _)
SameKeys(x, y) ==
    IF IsDict(x)
    THEN /\ IsDict(y)
         /\ DOMAIN y.dict = DOMAIN x.dict
         /\ \A k \in DOMAIN x.dict : SameKeys(x.dict[k], y.dict[k])
    ELSE IF IsList(x)
    THEN /\ IsList(y)
         /\ Len(y.list) = Len(x.list)
         /\ \A i \in DOMAIN x.list : SameKeys(x.list[i], y.list[i])
    ELSE TRUE

RECURSIVE FrameKept(_, _, _)
FrameKept(given, left, schema) ==
    /\ DOMAIN left = DOMAIN given
    /\ \A k \in DOMAIN given :
          /\ SameKeys(given[k], left[k])
          /\ (~Declares(schema, k) \/ RuleOf(schema, k).type \notin CoercedTypes)
                => left[k] = given[k]
          /\ ( /\ Declares(schema, k)
               /\ RuleOf(schema, k).type = "dict"
               /\ Has(RuleOf(schema, k), "schema")
               /\ ~Has(RuleOf(schema, k), "valuesrules")
               /\ ~Has(RuleOf(schema, k), "valueschema")
               /\ IsDict(given[k]) )
                => FrameKept(given[k].dict, left[k].dict, RuleOf(schema, k).schema)

C17_OnlyDeclaredFieldsChange ==
    (node.passes = 1 /\ node.exc = NoExc) =>
       FrameKept(node.before, node.properties, node.schema)

(* A call returned that coerced a nested objectid and left alone, beside   *)
(* it, a nested field the schema does not name; the nested datetime the    *)
(* schema declares is absent and stays absent.                             *)
C17_Witness ==
    /\ node.passes = 1
    /\ node.exc = NoExc
    /\ "n" \in DOMAIN node.before
    /\ IsDict(node.before.n)
    /\ DOMAIN node.before.n.dict = {"o", "z"}
    /\ node.properties.n.dict.o # node.before.n.dict.o
    /\ node.properties.n.dict.z = Str("text")

(* C18: coercion of an objectid field.  A value that is empty or falsy     *)
(* becomes None and the field's turn raises nothing; a string of 24        *)
(* hexadecimal digits becomes the ObjectId of that hexadecimal value.      *)
FalsyValues == {Str(""), PyNone, PyInt(0), List(<< >>), Dict(<< >>)}

C18_ObjectIdCoercion ==
    node.passes = 1 =>
       \A k \in FieldsOfType("objectid") :
          LET given == node.before[k] IN
          /\ given \in FalsyValues =>
                /\ node.at # k
                /\ TurnCompleted(k) => node.properties[k] = PyNone
          /\ (IsStr(given) /\ given.str \in {Hex, HexUpper}) =>
                /\ node.at # k
                /\ TurnCompleted(k) => node.properties[k] = [oid |-> Hex]

(* An objectid field given 0 became None, in a call that went on. *)
C18_Witness ==
    /\ node.passes = 1
    /\ node.exc = NoExc
    /\ "o" \in FieldsOfType("objectid")
    /\ node.before.o = PyInt(0)
    /\ node.properties.o = PyNone
    /\ "d" \in DOMAIN node.before

(* C19: coercion of a list field.  The strings '' and '[]', like the empty *)
(* list, become the empty list.  Otherwise, with an item schema every      *)
(* element is replaced by what coercing that element alone against the     *)
(* item schema gives, as many elements in the same order; without an item  *)
(* schema the elements stay as they are.                                   *)
AloneAgainst(item, item_rule) ==
    ConvertProperties(ItemProp(item), ItemSchema(item_rule))

C19_ListCoercion ==
    node.passes = 1 =>
       \A k \in FieldsOfType("list") :
          LET given == node.before[k]
              left  == node.properties[k]
              rule  == RuleOf(node.schema, k)
          IN
          /\ given \in {Str(""), Str("[]"), List(<< >>)} =>
                /\ node.at # k
                /\ TurnCompleted(k) => left = List(<< >>)
          /\ (IsList(given) /\ Has(rule, "schema") /\ TurnCompleted(k)) =>
                /\ IsList(left)
                /\ Len(left.list) = Len(given.list)
                /\ \A i \in DOMAIN given.list :
                      left.list[i] = AloneAgainst(given.list[i], rule.schema).value.item
          /\ (IsList(given) /\ Has(rule, "schema") /\ Rule("objectid") = rule.schema
                /\ TurnCompleted(k)) =>
                \A i \in DOMAIN given.list :
                   left.list[i] = IF given.list[i] = Str("") THEN PyNone
                                  ELSE [oid |-> Hex]
          /\ (IsList(given) /\ ~Has(rule, "schema")) =>
                /\ node.at # k
                /\ left = given

(* A list of three became the three ObjectIds and None in the same order,  *)
(* beside a '[]' that became the empty list.                               *)
C19_Witness ==
    /\ node.passes = 1
    /\ node.exc = NoExc
    /\ {"l", "m"} \subseteq FieldsOfType("list")
    /\ node.before.l = List(<<Str(HexUpper), Str(""), Str(Hex)>>)
    /\ node.properties.l = List(<<[oid |-> Hex], PyNone, [oid |-> Hex]>>)
    /\ node.before.m = Str("[]")
    /\ node.properties.m = List(<< >>)

(* C20: coercion of a datetime field.  A string that matches the           *)
(* configured format becomes the datetime with the calendar fields the     *)
(* string spells and the UTC timezone attached, nothing shifted; a string  *)
(* that does not match makes the call fail with strptime's ValueError and  *)
(* the field keeps the string.                                             *)
SpelledBy(s) ==
    IF s = "Wed, 01 Jan 2020 00:00:00 GMT" THEN <<2020, 1, 1, 0, 0, 0>>
    ELSE IF s = "Thu, 31 Dec 2020 23:59:59 GMT" THEN <<2020, 12, 31, 23, 59, 59>>
    ELSE << >>

C20_DatetimeCoercion ==
    node.passes = 1 =>
       \A k \in FieldsOfType("datetime") :
          LET given == node.before[k] IN
          IsStr(given) =>
             IF SpelledBy(given.str) # << >>
             THEN /\ node.at # k
                  /\ TurnCompleted(k) =>
                        node.properties[k] =
                           [datetime |-> SpelledBy(given.str), tzinfo |-> "UTC"]
             ELSE /\ node.properties[k] = given
                  /\ ~RaisedEarlier(k) => (node.at = k /\ node.exc = "ValueError")

(* A datetime field given a matching string was coerced, in a call that    *)
(* returned. *)
C20_Witness ==
    /\ node.passes = 1
    /\ node.exc = NoExc
    /\ "d" \in FieldsOfType("datetime")
    /\ node.before.d = Str(Date1)
    /\ node.properties.d = [datetime |-> <<2020, 1, 1, 0, 0, 0>>, tzinfo |-> "UTC"]

---------------------------------------------------------------------------
(* ValidateCustomFields._validate_valid_properties: the rule that          *)
(* validates a node's `properties` against the dyn_schema of its node type.*)

(* The 'projects' collection: one project, with its node types. *)
Projects ==
    [id \in {Hex} |->
        [node_types |-> <<[name |-> "asset", dyn_schema |-> ScalarSchema],
                          [name |-> "group", dyn_schema |-> ListSchema],
                          [name |-> "page", dyn_schema |-> DictSchema]>>]]

(* ObjectId(None) is a newly generated id, which no document has. *)
GeneratedObjectId == ObjectId("generated")

(* lookup = {'_id': ObjectId(self.document['project'])} *)
ProjectLookup(document) ==
    IF ~Has(document, "project") THEN Raised(PyNone, "KeyError")
    ELSE IF IsNone(document.project) THEN Returned(GeneratedObjectId)
    ELSE MakeObjectId(document.project)

(* projects_collection.find_one(lookup, ...): the document, or None *)
FindProject(oid) == IF oid.oid \in DOMAIN Projects THEN Projects[oid.oid] ELSE NoDoc

(* project_get_node_type(project, node_type_name): the node type of that   *)
(* name among the project's node_types, or None.                           *)
ProjectGetNodeType(project, node_type_name) ==
    IF \E i \in DOMAIN project.node_types : project.node_types[i].name = node_type_name
    THEN project.node_types[CHOOSE i \in DOMAIN project.node_types :
                                project.node_types[i].name = node_type_name]
    ELSE NoDoc

ProjectFound(project) == project # NoDoc

NodeTypeIsNoneNever(node_type) == FALSE

(* if node_type is None *)
NodeTypeIsNone(node_type) == node_type = NoDoc

(* The exceptions of the model; all are subclasses of Exception. *)
Exceptions == {"KeyError", "TypeError", "ValueError", "InvalidId", "AssertionError"}

ExceptValueError(exc) == exc = "ValueError"

(* except Exception as e: log.warning(...) *)
ExceptException(exc) == exc \in Exceptions

(* The structural validator, v.validate(value) with the node type's        *)
(* dyn_schema: every field is one the schema declares and its value has    *)
(* the declared type, at every depth.                                      *)
RECURSIVE ValueValid(_, _)
RECURSIVE MappingValid(_, _)

ValueValid(val, rule) ==
    CASE rule.type = "string"   -> IsStr(val)
      [] rule.type = "integer"  -> IsInt(val)
      [] rule.type = "datetime" -> IsDatetime(val)
      [] rule.type = "objectid" -> IsObjectId(val)
      [] rule.type = "list" ->
            /\ IsList(val)
            /\ Has(rule, "schema") =>
                  \A i \in DOMAIN val.list : ValueValid(val.list[i], rule.schema)
      [] rule.type = "dict" ->
            /\ IsDict(val)
            /\ Has(rule, "schema") => MappingValid(val.dict, rule.schema)
            /\ Has(rule, "valuesrules") =>
                  \A k \in DOMAIN val.dict : ValueValid(val.dict[k], rule.valuesrules)
      [] OTHER -> FALSE

MappingValid(mapping, schema) ==
    \A k \in DOMAIN mapping :
       /\ Declares(schema, k)
       /\ ValueValid(mapping[k], RuleOf(schema, k))

(* v.document after v.validate(value): the mapping with the defaults the   *)
(* schema declares filled in for the fields the mapping lacks.             *)
Normalized(mapping, schema) ==
    LET defaulted == {schema.fields[i].name : i \in
                        {j \in DOMAIN schema.fields : Has(schema.fields[j].rule, "default")}}
    IN  [k \in DOMAIN mapping \cup defaulted |->
            IF k \in DOMAIN mapping THEN mapping[k] ELSE RuleOf(schema, k).default]

PropertiesAfterAlwaysReplaced(val, value, v_document) == v_document

(* if val: self.document[field] = v.document; otherwise the field keeps    *)
(* the mapping it has, which is `value`                                    *)
PropertiesAfter(val, value, v_document) == IF val THEN v_document ELSE value

(* node in this specification: the validator's document, the document it   *)
(* was constructed with, the field errors reported with self._error, what  *)
(* the rule returned or the exception that left it, and what it ran on the *)
(* way: the coercion (with the exception it raised) and the structural     *)
(* validator (with the mapping it was given).                              *)
Validator(document) ==
    [document |-> document, given |-> document, errors |-> {},
     returned |-> "not called", exc |-> NoExc,
     coerced |-> FALSE, coerce_exc |-> NoExc, coerce_at |-> NoField,
     validated |-> FALSE, validated_on |-> NoDoc, schema |-> Schema(<< >>)]

FieldError(field, message) == <<field, message>>

(* self._validate_valid_properties(valid_properties, 'properties',         *)
(*                                 self.document['properties'])            *)
ValidateValidProperties ==
    LET field  == "properties"
        value  == node.document.properties
        lookup == ProjectLookup(node.document)
    IN
    /\ node.returned = "not called"
    /\ node.exc = NoExc
    /\ UNCHANGED <<orgs, users, schema_defaults, last, inflight>>
    /\ IF lookup.exc # NoExc
       THEN node' = [node EXCEPT !.exc = lookup.exc]
       ELSE
       LET project == FindProject(lookup.value) IN
       IF ~ProjectFound(project)
       THEN node' = [node EXCEPT !.errors = @ \cup {FieldError(field, "Unknown project")},
                                 !.returned = "False"]
       ELSE
       LET node_type == ProjectGetNodeType(project, node.document.node_type) IN
       IF NodeTypeIsNone(node_type)
       THEN node' = [node EXCEPT !.errors = @ \cup {FieldError(field, "Unknown node type")},
                                 !.returned = "False"]
       ELSE
       IF ~Has(node_type, "dyn_schema")
       THEN \* node_type['dyn_schema'] of line 113, outside the try
            node' = [node EXCEPT !.exc = "TypeError"]
       ELSE
       LET c       == ConvertProperties(value, node_type.dyn_schema)
           coerced == [node EXCEPT !.coerced = TRUE, !.coerce_exc = c.exc,
                                   !.coerce_at = c.at,
                                   !.schema = node_type.dyn_schema,
                                   !.document.properties = c.value]
       IN
       IF c.exc # NoExc /\ ~ExceptException(c.exc)
       THEN node' = [coerced EXCEPT !.exc = c.exc]
       ELSE
       LET v_document == Normalized(c.value, node_type.dyn_schema)
           val        == MappingValid(v_document, node_type.dyn_schema)
           validated  == [coerced EXCEPT !.validated = TRUE, !.validated_on = c.value,
                                         !.document.properties =
                                            PropertiesAfter(val, c.value, v_document)]
       IN
       IF val
       THEN node' = [validated EXCEPT !.returned = "True"]
       ELSE node' = [validated EXCEPT !.errors = @ \cup {FieldError(field,
                                                         "Error validating properties")},
                                      !.returned = "None"]

(* The values a node's project reference takes, besides being absent. *)
UnknownHex == "000000000000000000000000"

ProjectRefs ==
    {Str(Hex), Str(HexUpper), ObjectId(Hex), Str(UnknownHex), ObjectId(UnknownHex),
     Str("not-an-id"), Str(""), PyNone, PyInt(0)}

NodeTypeNames == {"asset", "group", "page", "comment"}

NodeDocuments ==
    {[project |-> r, node_type |-> "asset", properties |-> p] :
        r \in {Str(Hex), ObjectId(Hex)}, p \in Mappings(ScalarCands)}
    \cup
    {[project |-> r, node_type |-> "group", properties |-> p] :
        r \in {Str(HexUpper)}, p \in Mappings(ListCands)}
    \cup
    {[project |-> r, node_type |-> "page", properties |-> p] :
        r \in {ObjectId(Hex)}, p \in Mappings(DictCands)}
    \cup
    {[project |-> r, node_type |-> t, properties |-> p] :
        r \in ProjectRefs, t \in NodeTypeNames,
        p \in {[o |-> Str(Hex)], [l |-> Str("")]}}
    \cup
    {[node_type |-> t, properties |-> [o |-> Str(Hex)]] : t \in NodeTypeNames}

InitValidate ==
    /\ orgs = << >>
    /\ users = InitUsers
    /\ schema_defaults = TRUE
    /\ last = NoCall
    /\ inflight = << >>
    /\ \E document \in NodeDocuments : node = Validator(document)

NextValidate == ValidateValidProperties

SpecValidate == InitValidate /\ [][NextValidate]_vars

---------------------------------------------------------------------------
(* Properties of _validate_valid_properties.                               *)

(* The rule has been called and has returned or raised. *)
RuleEnded == node.returned # "not called" \/ node.exc # NoExc

(* The project references that name the project of the collection. *)
KnownProjectRefs == {Str(Hex), Str(HexUpper), ObjectId(Hex)}

OnlyError(message) == node.errors = {<<"properties", message>>}

(* C13, as stated: for a node whose project reference matches no project,  *)
(* whatever value the reference has, the rule returns False with the field *)
(* error 'Unknown project', runs neither the coercion nor the structural   *)
(* validator, leaves the document as it was, and raises nothing.           *)
C13_UnknownProjectReturnsFalse ==
    ( /\ RuleEnded
      /\ Has(node.given, "project")
      /\ node.given.project \notin KnownProjectRefs ) =>
       /\ node.exc = NoExc
       /\ node.returned = "False"
       /\ OnlyError("Unknown project")
       /\ ~node.coerced
       /\ ~node.validated
       /\ node.document = node.given

(* C14: when the node's project exists and has no node type of the name in *)
(* the node's node_type field, the rule returns False with the field error *)
(* 'Unknown node type', reported as the other field errors are, runs       *)
(* neither the coercion nor the structural validator and leaves the        *)
(* document, its properties included, as it was.                           *)
C14_UnknownNodeTypeReturnsFalse ==
    ( /\ RuleEnded
      /\ Has(node.given, "project")
      /\ node.given.project \in KnownProjectRefs
      /\ node.given.node_type \notin {"asset", "group", "page"} ) =>
       /\ node.exc = NoExc
       /\ node.returned = "False"
       /\ OnlyError("Unknown node type")
       /\ ~node.coerced
       /\ ~node.validated
       /\ node.document = node.given

(* The rule ended for a node of an existing project, given as an upper     *)
(* case string, whose node type the project does not have.                 *)
C14_Witness ==
    /\ RuleEnded
    /\ Has(node.given, "project")
    /\ node.given.project = Str(HexUpper)
    /\ node.given.node_type = "comment"
    /\ node.given.properties = [o |-> Str(Hex)]
    /\ node.returned = "False"

(* What coercing field k of the given properties alone gives. *)
CoercedAlone(k) ==
    ConvertProperties([x \in {k} |-> node.given.properties[k]], node.schema)

CoercionRaised == node.coerced /\ node.coerce_exc # NoExc

Position(k) == IndexOf(node.schema, k)

(* The verdict of the structural validator on a mapping, and the document *)
(* it holds afterwards.                                                    *)
ValidatorAccepts(mapping) ==
    MappingValid(Normalized(mapping, node.schema), node.schema)

ValidatedDocument(mapping) == Normalized(mapping, node.schema)

(* What C15 says of the exception, of the validator run and of the fields  *)
(* other than the failing one.                                             *)
CoercionFailureIsSwallowed ==
    /\ node.exc = NoExc
    /\ node.validated
    /\ node.returned = IF ValidatorAccepts(node.validated_on)
                       THEN "True" ELSE "None"
    /\ DOMAIN node.validated_on = DOMAIN node.given.properties
    /\ \A k \in DOMAIN node.given.properties :
          LET raw  == node.given.properties[k]
              left == node.validated_on[k]
          IN
          /\ ~Declares(node.schema, k) => left = raw
          /\ (Declares(node.schema, k) /\ Position(k) < Position(node.coerce_at)) =>
                /\ CoercedAlone(k).exc = NoExc
                /\ left = CoercedAlone(k).value[k]
          /\ (Declares(node.schema, k) /\ Position(k) > Position(node.coerce_at)) =>
                left = raw

PartlyCoerced(raw, left, rule) ==
    IF IsList(raw) /\ rule.type = "list" /\ Has(rule, "schema")
    THEN /\ IsList(left)
         /\ Len(left.list) = Len(raw.list)
         /\ \E j \in DOMAIN raw.list :
               /\ AloneAgainst(raw.list[j], rule.schema).exc # NoExc
               /\ \A i \in DOMAIN raw.list :
                     left.list[i] = IF i < j
                                    THEN AloneAgainst(raw.list[i], rule.schema).value.item
                                    ELSE raw.list[i]
    ELSE IF IsDict(raw) /\ rule.type = "dict"
    THEN SameKeys(raw, left)
    ELSE left = raw

---------------------------------------------------------------------------
(* Coercion of dict fields.                                                *)

(* The dict fields of the first call whose value is a dict and whose turn  *)
(* the call reached.                                                       *)
DictFieldsReached ==
    {k \in FieldsOfType("dict") : IsDict(node.before[k]) /\ ~RaisedEarlier(k)}

(* What applying a field-specific schema to the sub-fields of a dict gives.*)
UnderSchema(given, rule) == ConvertProperties(given.dict, rule.schema)

(* The single rule for the values, under either name. *)
ValuesRuleOf(rule) ==
    IF Has(rule, "valuesrules") THEN rule.valuesrules ELSE rule.valueschema

DeclaresValuesRule(rule) == Has(rule, "valuesrules") \/ Has(rule, "valueschema")

(* Field k of the first call ended with every entry of the mapping         *)
(* replaced by what coercing that entry alone against the values rule      *)
(* gives, or raised what the coercion of an entry raised.                  *)
EveryEntryCoerced(k, mapping, values_rule) ==
    IF \A x \in DOMAIN mapping : AloneAgainst(mapping[x], values_rule).exc = NoExc
    THEN /\ node.at # k
         /\ IsDict(node.properties[k])
         /\ DOMAIN node.properties[k].dict = DOMAIN mapping
         /\ \A x \in DOMAIN mapping :
               node.properties[k].dict[x] =
                  AloneAgainst(mapping[x], values_rule).value.item
    ELSE /\ node.at = k
         /\ \E x \in DOMAIN mapping :
               node.exc = AloneAgainst(mapping[x], values_rule).exc

(* C21, as stated: a dict field that declares 'schema' has that schema     *)
(* applied to its named sub-fields and nothing else; one that declares no  *)
(* 'schema' and a rule for its values ('valuesrules' or 'valueschema') has *)
(* that rule applied to every entry; one that declares neither fails.      *)
C21_DictCoercionAsStated ==
    node.passes = 1 =>
       \A k \in DictFieldsReached :
          LET given == node.before[k]
              rule  == RuleOf(node.schema, k)
          IN
          IF Has(rule, "schema")
          THEN /\ node.properties[k] = Dict(UnderSchema(given, rule).value)
               /\ node.at = k <=> UnderSchema(given, rule).exc # NoExc
          ELSE IF DeclaresValuesRule(rule)
          THEN EveryEntryCoerced(k, given.dict, ValuesRuleOf(rule))
          ELSE node.at = k /\ node.exc # NoExc

(* C21: a dict field that declares 'schema' has that schema applied to its *)
(* named sub-fields.  The rule for the values ('valuesrules', else         *)
(* 'valueschema') is applied to every entry when the field declares no     *)
(* 'schema', and also when applying the declared 'schema' raised a         *)
(* KeyError, then to the entries as that left them; the rule must itself   *)
(* be a dict rule, or the call fails with AssertionError.  A field for     *)
(* which the rule for the values is wanted and not declared fails with     *)
(* KeyError, its value as it was.                                          *)
C21_DictCoercion ==
    node.passes = 1 =>
       \A k \in DictFieldsReached :
          LET given   == node.before[k]
              rule    == RuleOf(node.schema, k)
              by_keys == Has(rule, "schema")
              entries == IF by_keys THEN UnderSchema(given, rule).value
                         ELSE given.dict
          IN
          IF by_keys /\ UnderSchema(given, rule).exc # "KeyError"
          THEN /\ node.properties[k] = Dict(entries)
               /\ node.at = k <=> UnderSchema(given, rule).exc # NoExc
               /\ node.at = k => node.exc = UnderSchema(given, rule).exc
          ELSE IF ~DeclaresValuesRule(rule)
          THEN /\ node.at = k
               /\ node.exc = "KeyError"
               /\ node.properties[k] = Dict(entries)
          ELSE IF ValuesRuleOf(rule).type # "dict"
          THEN /\ node.at = k
               /\ node.exc = "AssertionError"
               /\ node.properties[k] = Dict(entries)
          ELSE EveryEntryCoerced(k, entries, ValuesRuleOf(rule))

(* A call returned that applied a schema to the sub-fields of one dict and *)
(* a rule for the values to both entries of another, whose sub-field z the *)
(* rule does not name.                                                     *)
C21_Witness ==
    /\ node.passes = 1
    /\ node.exc = NoExc
    /\ {"n", "v"} \subseteq DictFieldsReached
    /\ node.before.n = Dict([o |-> Str(Hex), z |-> Str("text")])
    /\ node.properties.n = Dict([o |-> [oid |-> Hex], z |-> Str("text")])
    /\ node.before.v = Dict([p |-> Dict([o |-> Str(Hex)]),
                             q |-> Dict([o |-> Str(""), z |-> Str(Hex)])])
    /\ node.properties.v = Dict([p |-> Dict([o |-> [oid |-> Hex]]),
                                 q |-> Dict([o |-> PyNone, z |-> Str(Hex)])])

---------------------------------------------------------------------------
(* The outcome of the validation that follows the coercion.                *)

(* C22: once the coercion has run, the rule reports by value and raises    *)
(* nothing.  When the validator accepts the properties the rule returns    *)
(* True, records no error and the document's properties field becomes the  *)
(* validator's document, defaults filled in; when it rejects them the rule *)
(* records the field error 'Error validating properties', returns a falsy  *)
(* value (None) and the properties field is not given the validator's      *)
(* document: it stays the mapping the field held, as the coercion left it. *)
C22_ValidationOutcomeIsAValue ==
    (RuleEnded /\ node.coerced) =>
       /\ node.exc = NoExc
       /\ node.validated
       /\ IF ValidatorAccepts(node.validated_on)
          THEN /\ node.returned = "True"
               /\ node.errors = {}
               /\ node.document.properties = ValidatedDocument(node.validated_on)
          ELSE /\ node.returned = "None"
               /\ OnlyError("Error validating properties")
               /\ node.document.properties = node.validated_on
       /\ \A f \in DOMAIN node.given :
             f # "properties" => node.document[f] = node.given[f]

(* The validator rejected properties that lack the field with a default:   *)
(* the field error is recorded and the default is not in the document.     *)
C22_Witness ==
    /\ RuleEnded
    /\ node.coerced
    /\ node.coerce_exc = NoExc
    /\ node.returned = "None"
    /\ node.given.node_type = "asset"
    /\ DOMAIN node.given.properties = {"o", "x"}
    /\ DOMAIN node.document.properties = {"o", "x"}
    /\ node.document.properties.o = [oid |-> Hex]
    /\ DOMAIN ValidatedDocument(node.validated_on) = {"o", "s", "x"}

---------------------------------------------------------------------------
(* _validate_required_after_creation: the rule argument, the id of the     *)
(* document under validation (None while it is being created), the field   *)
(* and its value.                                                          *)

RequiredFields == {"user", "name"}

DocumentIds == {PyNone, ObjectId(Hex)}

RequiredValues ==
    {PyNone, Str(""), Str("text"), PyInt(0), PyInt(1), Bool(FALSE), Bool(TRUE),
     List(<< >>), List(<<Str("a")>>), Dict(<< >>), Dict([o |-> Str(Hex)]),
     ObjectId(Hex)}

RequiredValidator(required_after_creation, document_id, field, value) ==
    [required_after_creation |-> required_after_creation,
     document_id |-> document_id, field |-> field, value |-> value,
     errors |-> {}, returned |-> "not called"]

(* self._validate_required_after_creation(required_after_creation, field,  *)
(*                                        value)                           *)
ValidateRequiredAfterCreation ==
    /\ node.returned = "not called"
    /\ IF ~node.required_after_creation
       THEN node' = [node EXCEPT !.returned = "None"]
       ELSE IF node.document_id = PyNone
       THEN node' = [node EXCEPT !.returned = "None"]
       ELSE IF ~Truthy(node.value)
       THEN node' = [node EXCEPT
                        !.errors = @ \cup {FieldError(node.field,
                                     "Value is required once the document was created")},
                        !.returned = "None"]
       ELSE node' = [node EXCEPT !.returned = "None"]
    /\ UNCHANGED <<orgs, users, schema_defaults, last, inflight>>

InitRequired ==
    /\ orgs = << >>
    /\ users = InitUsers
    /\ schema_defaults = TRUE
    /\ last = NoCall
    /\ inflight = << >>
    /\ \E required_after_creation \in BOOLEAN, document_id \in DocumentIds,
          field \in RequiredFields, value \in RequiredValues :
          node = RequiredValidator(required_after_creation, document_id, field, value)

NextRequired == ValidateRequiredAfterCreation

SpecRequired == InitRequired /\ [][NextRequired]_vars

---------------------------------------------------------------------------
(* Properties of _validate_required_after_creation.                        *)

(* The values that are missing (None) or empty. *)
MissingOrEmpty == {PyNone, Str(""), List(<< >>), Dict(<< >>)}

RequiredOnceCreated ==
    FieldError(node.field, "Value is required once the document was created")

(* C24, as stated: the rule records no error when its argument is False or *)
(* when the document is being created (document_id is None); on an update  *)
(* with the argument True it records 'Value is required once the document  *)
(* was created' for the field exactly when the value is missing or empty,  *)
(* and records nothing else.                                               *)
C24_RequiredAfterCreation ==
    node.returned # "not called" =>
       IF ~node.required_after_creation \/ node.document_id = PyNone
       THEN node.errors = {}
       ELSE node.errors = IF node.value \in MissingOrEmpty
                          THEN {RequiredOnceCreated} ELSE {}

---------------------------------------------------------------------------
(* The user edit view, src/pillar/web/users/routes.py.  A user document    *)
(* has the list fields roles and groups (roles may be absent); `last` is   *)
(* the request just served.                                                *)

MaxEdits == 1

(* form.roles.choices: the roles the form lets an admin select. *)
FormRoleChoices == <<"admin", "subscriber", "demo">>

(* The groups collection: the id of the group named after a role.  No      *)
(* group is named "service".                                               *)
Groups == [admin |-> "g1", subscriber |-> "g2", demo |-> "g3", editor |-> "g4"]

(* form.roles.data of a valid submit: a selection among the choices. *)
FormRolesData ==
    {<< >>, <<"admin">>, <<"subscriber">>, <<"demo">>, <<"admin", "demo">>,
     <<"subscriber", "admin">>}

CurrentUsers == {{"admin"}, {"subscriber"}, {"admin", "subscriber"}}

EditedUsers ==
    {[email |-> "a@x"],
     [email |-> "a@x", roles |-> << >>, groups |-> << >>],
     [email |-> "a@x", roles |-> <<"subscriber">>, groups |-> <<"g2">>],
     [email |-> "a@x", roles |-> <<"editor", "subscriber">>, groups |-> <<"g4", "g2">>],
     [email |-> "a@x", roles |-> <<"service", "admin">>, groups |-> <<"g1">>],
     [email |-> "a@x", roles |-> <<"editor">>, groups |-> <<"g4">>]}

Request(args, status, exc, before, edits) ==
    [op |-> "users_edit", args |-> args, status |-> status, exc |-> exc,
     before |-> before, edits |-> edits]

Edits == IF last = NoCall THEN 0 ELSE last.edits

(* get_groups(roles): Group.find_one gives no group for a name no group    *)
(* has, and `group._id` then raises.                                       *)
GetGroups(roles) ==
    IF roles \subseteq DOMAIN Groups
    THEN Returned({Groups[r] : r \in roles})
    ELSE Raised({}, "AttributeError")

(* lines 207-226 *)
UsersEditSubmit(user_id, args) ==
    LET user            == users[user_id]
        system_roles    == Range(FormRoleChoices)
        system_groups   == GetGroups(system_roles)
        user_roles_list == IF Has(user, "roles") /\ user.roles # << >>
                           THEN user.roles ELSE << >>
        user_roles_set  == Range(user_roles_list)
        user_groups_set == GetGroups(Range(user_roles_list))
        kept_roles      == user_roles_set \ system_roles
        system_roles_assigned  == args.data
        system_groups_assigned == GetGroups(Range(system_roles_assigned))
        failed(exc)     == /\ last' = Request(args, 500, exc, users, Edits + 1)
                           /\ UNCHANGED users
    IN
    IF system_groups.exc # NoExc THEN failed(system_groups.exc)
    ELSE IF user_groups_set.exc # NoExc THEN failed(user_groups_set.exc)
    ELSE IF system_groups_assigned.exc # NoExc THEN failed(system_groups_assigned.exc)
    ELSE \E roles_order \in Perms(kept_roles),
            groups_order \in Perms(user_groups_set.value \ system_groups.value) :
            LET user_roles == roles_order \o system_roles_assigned
                all_groups == GetGroups(Range(user_roles))
            IN
            IF all_groups.exc # NoExc THEN failed(all_groups.exc)
            ELSE \E added_order \in Perms(all_groups.value) :
                    /\ users' = [users EXCEPT ![user_id] =
                                    SetField(SetField(user, "roles", user_roles),
                                             "groups", groups_order \o added_order)]
                    /\ last' = Request(args, 200, NoExc, users, Edits + 1)

(* users_edit(user_id), for the logged-in current_user *)
UsersEdit(current_user_roles, user_id, submitted, data) ==
    LET args == [current_user |-> current_user_roles, user_id |-> user_id,
                 submitted |-> submitted, data |-> data]
    IN
    /\ Edits < MaxEdits
    /\ IF "admin" \notin current_user_roles
       THEN /\ last' = Request(args, 403, NoExc, users, Edits + 1)
            /\ UNCHANGED users
       ELSE IF submitted
       THEN UsersEditSubmit(user_id, args)
       ELSE /\ last' = Request(args, 200, NoExc, users, Edits + 1)
            /\ UNCHANGED users
    /\ UNCHANGED <<orgs, schema_defaults, inflight, node>>

InitUsersEdit ==
    /\ orgs = << >>
    /\ users \in [{"u1"} -> EditedUsers]
    /\ schema_defaults = TRUE
    /\ last = NoCall
    /\ inflight = << >>
    /\ node = NoDoc

NextUsersEdit ==
    \E current_user_roles \in CurrentUsers, user_id \in DOMAIN users,
       submitted \in BOOLEAN, data \in FormRolesData :
       UsersEdit(current_user_roles, user_id, submitted, data)

SpecUsersEdit == InitUsersEdit /\ [][NextUsersEdit]_vars

---------------------------------------------------------------------------
(* Properties of users_edit.                                               *)

RolesOf(user) == IF Has(user, "roles") THEN Range(user.roles) ELSE {}

(* C25, as stated: a caller without the 'admin' role gets 403 and the user *)
(* is not updated; on a valid submit by an admin the user's roles become   *)
(* the previous roles that are not among the form's choices, plus exactly  *)
(* the roles selected in the form.                                         *)
C25_OnlyAdminEditsRoles ==
    last # NoCall =>
       LET before == last.before[last.args.user_id]
           after  == users[last.args.user_id]
       IN
       /\ "admin" \notin last.args.current_user =>
             /\ last.status = 403
             /\ users = last.before
       /\ ("admin" \in last.args.current_user /\ last.args.submitted) =>
             RolesOf(after) = (RolesOf(before) \ Range(FormRoleChoices))
                                 \cup Range(last.args.data)

---------------------------------------------------------------------------
(* Failed membership calls and the stored organization.                    *)

(* The call a step makes is assign_users or remove_user and it raises. *)
MembershipCallRaised(call) ==
    /\ call.op \in {"assign_users", "remove_user"}
    /\ call.result # "ok"

StoredSeats(doc) ==
    <<FieldOrEmpty(doc, "members"), FieldOrEmpty(doc, "unknown_members")>>

(* C26, as stated: whenever assign_users or remove_user raises any error,  *)
(* an error raised while refreshing roles included, the stored members and *)
(* unknown_members of every organization are what they were before the     *)
(* call.                                                                   *)
C26_FailedCallStoresNothing ==
    [][MembershipCallRaised(last') =>
          /\ DOMAIN orgs' = DOMAIN orgs
          /\ \A o \in DOMAIN orgs : StoredSeats(orgs'[o]) = StoredSeats(orgs[o])]_vars

---------------------------------------------------------------------------
(* Joining and leaving organizations whose org_roles need not start with   *)
(* 'org-'.                                                                 *)

LeaveOrgRolesArgs == {{"org-A"}, {"org-A", "editor"}, {"editor", "org-B"}}

NextLeave ==
    \/ /\ Cardinality(DOMAIN orgs) < Len(OrgIdSeq)
       /\ \E org_roles \in LeaveOrgRolesArgs :
             CreateNewOrg("org", "u1", MaxSeats, org_roles, 201)
    \/ \E org_id \in OrgIds :
          \E order \in Perms(ExistingUsers(<<"a@x">>)) :
             AssignUsers(org_id, <<"a@x">>, 200, order)
    \/ \E org_id \in OrgIds, by_id \in BOOLEAN :
          RemoveUser(org_id, IF by_id THEN "u1" ELSE None,
                             IF by_id THEN None ELSE "a@x", 200)

InitLeave ==
    /\ orgs = << >>
    /\ users = InitUsers
    /\ schema_defaults = TRUE
    /\ last = NoCall
    /\ inflight = << >>
    /\ node = NoDoc

SpecLeave == InitLeave /\ [][NextLeave]_vars

---------------------------------------------------------------------------
(* Properties of roles given by membership.                                *)

(* The users whose roles the last call refreshed. *)
Refreshed == {last.events[i].id : i \in {j \in DOMAIN last.events :
                                            last.events[j].kind = "refresh"}}

(* The roles a user holds that no refresh gave: those held on registering. *)
OwnRoles(u) == InitUsers[u].roles

(* The roles the organizations the user is a member of list now. *)
ListedFor(u) == AggregateOrgRoles(orgs, u)

(* A removal has succeeded and refreshed the roles of the user removed. *)
RemovedAndRefreshed == last.op = "remove_user" /\ last.result = "ok"

(* C27, as stated: after a removal and the refresh that follows it, the    *)
(* user holds no role that a refresh granted for a membership and that no  *)
(* organization of the user lists any more, whatever the role's name.      *)
C27_GrantedRolesAreRevoked ==
    RemovedAndRefreshed =>
       \A u \in Refreshed :
          \A role \in users[u].roles \ OwnRoles(u) : role \in ListedFor(u)

(* C27, amended: after a removal and the refresh that follows it, the user *)
(* holds no role starting with 'org-' that no organization of the user     *)
(* lists any more; a granted role of another name is kept: the roles the   *)
(* user holds beyond the own and the listed ones are exactly the names not *)
(* starting with 'org-' that were granted earlier and are not revoked.     *)
C27_OrgPrefixedRolesAreRevoked ==
    RemovedAndRefreshed =>
       \A u \in Refreshed :
          /\ \A role \in users[u].roles \ OwnRoles(u) :
                StartsWithOrg(role) => role \in ListedFor(u)
          /\ \A i \in DOMAIN last.events :
                last.events[i].kind = "revoke" =>
                   \A role \in last.events[i].roles : StartsWithOrg(role)

(* The user left the organization that listed org-A and editor: the        *)
(* refresh revoked org-A, and editor, listed nowhere now, is still held.   *)
C27_Witness ==
    /\ RemovedAndRefreshed
    /\ \E i \in DOMAIN last.events :
          /\ last.events[i].kind = "revoke"
          /\ "org-A" \in last.events[i].roles
          /\ last.events[i].id \in DOMAIN users
          /\ "org-A" \notin users[last.events[i].id].roles
          /\ "editor" \in users[last.events[i].id].roles
          /\ "editor" \notin ListedFor(last.events[i].id)

---------------------------------------------------------------------------
(* Seats and the people who hold them.                                     *)

(* C28, as stated: in no organization does an email of unknown_members     *)
(* belong to a user who is in members, after any calls of assign_users and *)
(* remove_user interleaved with users registering.                         *)
C28_NoPersonHoldsTwoSeats ==
    \A o \in DOMAIN orgs :
       \A u \in FieldOrEmpty(orgs[o], "members") \cap DOMAIN users :
          users[u].email \notin FieldOrEmpty(orgs[o], "unknown_members")

(* C29, as stated: assign_users and remove_user read an organization       *)
(* document without unknown_members as one whose unknown_members is empty, *)
(* as they do for members, and do not fail on it: on such a document the   *)
(* call ends as it ends on the same document with unknown_members empty,   *)
(* so never with the TypeError of reading the absent field.                *)
C29_AbsentUnknownMembersIsEmpty ==
    ( /\ last.op \in {"assign_users", "remove_user"}
      /\ last.before # NoDoc
      /\ ~Has(last.before, "unknown_members") ) =>
         last.result # "TypeError"

---------------------------------------------------------------------------
(* Refreshing twice.                                                       *)

(* The step is a refresh of the user the call before it refreshed, both    *)
(* completed, with the organizations as they were.                         *)
RefreshedAgain ==
    /\ last.op = "refresh_roles"
    /\ last.result = "ok"
    /\ last'.op = "refresh_roles"
    /\ last'.result = "ok"
    /\ last'.args.user_id = last.args.user_id
    /\ orgs' = orgs

(* C30: a refresh_roles(user_id) that immediately follows a completed      *)
(* refresh_roles(user_id), memberships and org_roles unchanged, makes no   *)
(* grant call and no revoke call and leaves the roles of every user as     *)
(* they were.                                                              *)
C30_RefreshIdempotent ==
    [][RefreshedAgain =>
          /\ \A i \in DOMAIN last'.events :
                last'.events[i].kind \notin {"grant", "revoke"}
          /\ users' = users]_vars

(* The state a repeated refresh ends in: the user holds the roles the two  *)
(* organizations list, which the first refresh granted, and an own role;   *)
(* the refresh found these roles and called the collaborator for nothing.  *)
C30_Witness ==
    /\ last.op = "refresh_roles"
    /\ last.result = "ok"
    /\ last.args.user_id \in DOMAIN users
    /\ last.before.roles = users[last.args.user_id].roles
    /\ Len(last.events) = 1
    /\ RolesFromOrgs(last.args.user_id) = {"org-A", "org-B", "org-C"}
    /\ users[last.args.user_id].roles = {"org-A", "org-B", "org-C", "subscriber"}

=============================================================================
